---- MODULE Spec2Model ----
(***************************************************************************)
(* Model of the two stateful components of the portfolio backend:          *)
(*   - the per-IP token-bucket RateLimitManager (middleware/auth.go)       *)
(*   - the MongoDB-backed CacheService (services/cache_service.go)         *)
(* Time is a discrete clock `now`; time.Now() reads it.  time.Duration     *)
(* values (window, TTLs) are counted in the same ticks: tenths of a second *)
(* where the limiter is at work, hours in the cache specifications.        *)
(***************************************************************************)
EXTENDS Integers, Sequences, FiniteSets, TLC

\* ------------------------------------------------------------------ bounds
\* Largest RATE_LIMIT_REQUESTS value the limiter specification explores.
MaxLimit == 3
\* Largest RATE_LIMIT_WINDOW value (in ticks) the limiter specification explores.
MaxWindow == 2
\* Last clock tick of the limiter specification.
MaxTime == 6
\* Last clock tick of the cache specifications.
MaxCacheTime == 2
\* Largest GITHUB_CACHE_TTL / CONTENT_CACHE_TTL value (in ticks) explored.
MaxTTL == 1

\* Client keys (getClientIP results) the limiter specification explores.
IPs == {"ip1", "ip2"}

VARIABLES
    limit,      \* RateLimitManager.limit
    window,     \* RateLimitManager.window
    limiters,   \* RateLimitManager.limiters: ip -> [tokens, lastSeen], partial
    now,        \* the clock read by time.Now()
    cache,      \* the documents of the "cache" collection
    githubTTL,  \* config.AppConfig.GitHubCacheTTL
    contentTTL, \* config.AppConfig.ContentCacheTTL
    ret,        \* what the last operation returned to its caller
    granted,    \* history: per ip, the times of the allow() calls that returned
                \* true during the last `window` ticks (kept for limit, window >= 1)
    evicted,    \* history: the ips whose bucket a cleanup pass has deleted
    lastSet,    \* history: per cache key, the last Set on it that no later Delete
                \* or DeletePattern has undone
    storeUp,    \* whether the database answers the calls made on it
    calls,      \* the calls in flight, per calling goroutine: where each stands
    batch,      \* history: the entries of the Set calls that overlap the latest one
    unswept,    \* history: the collection as it would be had no sweep ever run
    content,    \* the documents of the "content" collection
    custom,     \* the manager that a CustomRateLimit middleware closes over
    locks       \* who holds the manager's RWMutex and each bucket's Mutex

vars == <<limit, window, limiters, now, cache, githubTTL, contentTTL, ret, granted,
          evicted, lastSet, storeUp, calls, batch, unswept, content, custom, locks>>

\* What the operations of the limiter and of the cache leave alone.
Env == <<storeUp, calls, batch, unswept, content, custom, locks>>

\* No CustomRateLimit middleware has been constructed.
NoManager == [limit |-> 0, window |-> 0, limiters |-> << >>]

\* No goroutine holds the manager's lock or a bucket's lock.
NoLocks == [writer |-> "none", readers |-> {}, bucket |-> [k \in IPs |-> "none"]]

\* The database answers, no call is in flight, no content has been written.
EnvInit ==
    /\ storeUp = TRUE
    /\ calls = << >>
    /\ batch = {}
    /\ unswept = {}
    /\ content = {}
    /\ custom = NoManager
    /\ locks = NoLocks

\* ------------------------------------------------------------ configuration
\* strconv.Atoi accepts any decimal integer, so parseInt hands on zero and
\* negative values unchanged; an unset or unparsable variable gives the default.
parseInt(env, defaultValue) ==
    IF env.kind = "number" THEN env.n ELSE defaultValue

\* time.ParseDuration accepts zero and negative durations ("0s", "-1h").
parseDuration(env, defaultValue) ==
    IF env.kind = "number" THEN env.n ELSE defaultValue

\* time.Second on the clock of the limiter specifications: the clock ticks in
\* tenths of a second.
Second == 10

\* Default RATE_LIMIT_REQUESTS.
DefaultLimit == 100
\* Default RATE_LIMIT_WINDOW, "3600s".
DefaultWindow == 3600 * Second

\* An environment variable: unset, set to text that does not parse, or a number.
Unset == [kind |-> "unset", n |-> 0]
Unparsable == [kind |-> "unparsable", n |-> 0]
Number(n) == [kind |-> "number", n |-> n]

\* Values of the RATE_LIMIT_REQUESTS variable the limiter specification explores.
LimitEnv == {Number(n) : n \in -1 .. MaxLimit}
\* Values of the RATE_LIMIT_WINDOW variable the limiter specification explores.
WindowEnv == {Number(n) : n \in -1 .. MaxWindow}

\* ------------------------------------------------------------- rate limiter
NoRet == [op |-> "none", key |-> "", ok |-> FALSE, val |-> 0, data |-> "none"]

Result(op, key, ok, val, data) ==
    [op |-> op, key |-> key, ok |-> ok, val |-> val, data |-> data]

\* ------------------------------------------------------- float64 arithmetic
\* The integers of the model hold 31 bits, a float64 significand 53: a natural
\* number below 2^58 is kept as two limbs, [hi, lo] for hi * 2^27 + lo with
\* lo < 2^27.
Limb == 2^27

\* a >= b, a - b (for a >= b), 2 * a, a + 1 and a \div 2 on two-limb numbers.
WideGeq(a, b) == IF a.hi = b.hi THEN a.lo >= b.lo ELSE a.hi > b.hi

WideSub(a, b) ==
    IF a.lo >= b.lo THEN [hi |-> a.hi - b.hi, lo |-> a.lo - b.lo]
    ELSE [hi |-> a.hi - b.hi - 1, lo |-> a.lo + Limb - b.lo]

WideDouble(a) ==
    [hi |-> 2 * a.hi + (a.lo \div (Limb \div 2)), lo |-> (2 * a.lo) % Limb]

WideInc(a) ==
    IF a.lo + 1 = Limb THEN [hi |-> a.hi + 1, lo |-> 0]
    ELSE [hi |-> a.hi, lo |-> a.lo + 1]

WideHalf(a) ==
    [hi |-> a.hi \div 2, lo |-> (a.hi % 2) * (Limb \div 2) + (a.lo \div 2)]

\* a \div 2^s for s >= 0, with whether a bit that was shifted out was set.
WideShr(a, s) ==
    IF s >= 54 THEN [hi |-> 0, lo |-> 0, sticky |-> a.hi # 0 \/ a.lo # 0]
    ELSE IF s >= 27
    THEN [hi |-> 0, lo |-> a.hi \div 2^(s - 27),
          sticky |-> a.hi % 2^(s - 27) # 0 \/ a.lo # 0]
    ELSE [hi |-> a.hi \div 2^s,
          lo |-> (a.hi % 2^s) * 2^(27 - s) + (a.lo \div 2^s),
          sticky |-> a.lo % 2^s # 0]

\* a * k, for 0 <= k <= 16 and a * k < 2^58.
WideTimes(a, k) ==
    [hi |-> k * a.hi + ((k * a.lo) \div Limb), lo |-> (k * a.lo) % Limb]

\* The number of bits of an int n >= 0.
BitLen(n) == Cardinality({k \in 0..30 : n >= 2^k})

\* A float64 x >= 0 is [hi, lo, exp] for (hi * 2^27 + lo) * 2^exp, where the
\* significand hi * 2^27 + lo has exactly 53 bits; zero is [0, 0, 0]. The
\* values allow() computes with are far from the subnormal and the infinite.
Zero == [hi |-> 0, lo |-> 0, exp |-> 0]

\* The float64 of the significand r, of 53 bits or equal to 2^53, at exp.
Carry(r, exp) ==
    IF r.hi = Limb \div 2 THEN [hi |-> Limb \div 4, lo |-> 0, exp |-> exp + 1]
    ELSE [hi |-> r.hi, lo |-> r.lo, exp |-> exp]

\* Round to nearest, ties to even: the float64 nearest to q * 2^exp, where q
\* has 54 bits (53 and a guard bit) and sticky says that the exact value lies
\* above q * 2^exp by less than 2^exp more.
RoundEven(q, sticky, exp) ==
    Carry(IF q.lo % 2 = 1 /\ (sticky \/ (q.lo \div 2) % 2 = 1)
          THEN WideInc(WideHalf(q)) ELSE WideHalf(q),
          exp + 1)

\* The float64 of an int n of 53 - s bits, 22 <= s < 53.
Normal(n, s) ==
    IF s >= 27 THEN [hi |-> n * 2^(s - 27), lo |-> 0, exp |-> -s]
    ELSE [hi |-> n \div 2^(27 - s), lo |-> (n % 2^(27 - s)) * 2^s, exp |-> -s]

\* float64(n) for an int 0 <= n < 2^31: exact.
Float64(n) == IF n = 0 THEN Zero ELSE Normal(n, 53 - BitLen(n))

\* One hexadecimal digit of long division by y: the quotient d.q so far
\* takes the digit floor(16 * d.r / y), d.r < y becomes what is left and d.n
\* counts the digits. The quotient of the high limbs is the digit or one more
\* than the digit.
DivStep(d, y) ==
    LET r16 == WideTimes(d.r, 16)
        est == r16.hi \div y.hi
        digit == IF WideGeq(r16, WideTimes(y, est)) THEN est ELSE est - 1
        q16 == WideTimes(d.q, 16)
    IN  [q |-> [hi |-> q16.hi, lo |-> q16.lo + digit],
         r |-> WideSub(r16, WideTimes(y, digit)),
         n |-> d.n + 1]

\* Long division by y continued from d up to 14 digits.
RECURSIVE DivDigits(_, _)
DivDigits(d, y) == IF d.n = 14 THEN d ELSE DivDigits(DivStep(d, y), y)

\* The float64 for the quotient d.q of 57 - cut bits after the point, with
\* d.r left over, at exp: the quotient is cut to 53 bits and a guard bit.
QuoRound(d, cut, exp) ==
    RoundEven(WideShr(d.q, cut),
              WideShr(d.q, cut).sticky \/ d.r.hi # 0 \/ d.r.lo # 0,
              exp + cut)

\* x / y in float64, for x >= 0 and y > 0. The quotient of the significands
\* lies in (1/2, 2); its first 56 bits after the point are computed.
Quo(x, y) ==
    IF x.hi = 0 THEN Zero
    ELSE QuoRound(DivDigits([q |-> [hi |-> 0, lo |-> IF WideGeq(x, y) THEN 1 ELSE 0],
                             r |-> IF WideGeq(x, y) THEN WideSub(x, y)
                                   ELSE [hi |-> x.hi, lo |-> x.lo],
                             n |-> 0], y),
                  IF WideGeq(x, y) THEN 3 ELSE 2,
                  x.exp - y.exp - 56)

\* The float64 for x2 + s at exp, x2 of 54 bits and the sum too.
SumRound(x2, s, exp) ==
    RoundEven([hi |-> x2.hi + s.hi + ((x2.lo + s.lo) \div Limb),
               lo |-> (x2.lo + s.lo) % Limb],
              s.sticky, exp)

\* x + y in float64, for an integer x >= 0 and 0 <= y < 1.
Sum(x, y) ==
    IF y.hi = 0 THEN x
    ELSE IF x.hi = 0 THEN y
    ELSE SumRound(WideDouble(x), WideShr(y, x.exp - y.exp - 1), x.exp - 1)

\* The significand of x times an int n >= 0, exact, on three limbs; n is
\* taken three bits at a time.
RECURSIVE Product(_, _)
Product(x, n) ==
    IF n = 0 THEN [top |-> 0, hi |-> 0, lo |-> 0]
    ELSE LET p == Product(x, n \div 8)
             lo == 8 * p.lo + (n % 8) * x.lo
             hi == 8 * p.hi + (n % 8) * x.hi + (lo \div Limb)
         IN  [top |-> 8 * p.top + (hi \div Limb), hi |-> hi % Limb, lo |-> lo % Limb]

\* The float64 for the product p of 54 + s bits, s >= 0, at exp: the s low
\* bits are dropped, which leaves 53 bits and a guard bit.
TimesRound(p, s, exp) ==
    IF s >= 27
    THEN RoundEven([hi |-> p.top \div 2^(s - 27),
                    lo |-> (p.top % 2^(s - 27)) * 2^(54 - s) + (p.hi \div 2^(s - 27))],
                   p.hi % 2^(s - 27) # 0 \/ p.lo # 0, exp + s)
    ELSE RoundEven([hi |-> (p.top % 2^s) * 2^(27 - s) + (p.hi \div 2^s),
                    lo |-> (p.hi % 2^s) * 2^(27 - s) + (p.lo \div 2^s)],
                   p.lo % 2^s # 0, exp + s)

\* The number of bits of the three-limb number p >= 2^53.
ProductLen(p) == IF p.top = 0 THEN 27 + BitLen(p.hi) ELSE 54 + BitLen(p.top)

\* x * float64(n) in float64, for x >= 0 and an int 0 <= n < 2^31.
Times(x, n) ==
    IF x.hi = 0 \/ n = 0 THEN Zero
    ELSE IF n = 1 THEN x
    ELSE TimesRound(Product(x, n), ProductLen(Product(x, n)) - 54, x.exp)

\* int(x) for a float64 0 <= x < 2^31: the fraction is dropped.
IntOf(x) == WideShr(x, -x.exp).hi * Limb + WideShr(x, -x.exp).lo

\* A time.Duration d >= 0 is [sec, nsec] for sec * 10^9 + nsec nanoseconds,
\* nsec < 10^9: the d / Second and d % Second that Duration.Seconds() takes.
\* func (d Duration) Seconds() float64:
\*     sec := d / Second; nsec := d % Second
\*     return float64(sec) + float64(nsec)/1e9
Seconds(d) == Sum(Float64(d.sec), Quo(Float64(d.nsec), Float64(1000000000)))

\* tokensToAdd := int(elapsed.Seconds() * float64(rlm.limit) / rlm.window.Seconds())
\* for Durations 0 <= elapsed < win, the only ones allow() gets here with.
\* int() drops the fraction of a negative quotient too.
TokensToAdd(elapsed, lim, win) ==
    (IF lim >= 0 THEN 1 ELSE -1)
      * IntOf(Quo(Times(Seconds(elapsed), IF lim >= 0 THEN lim ELSE -lim), Seconds(win)))

\* The Duration of a number of ticks.
Duration(ticks) ==
    [sec |-> ticks \div Second, nsec |-> (ticks % Second) * (1000000000 \div Second)]

\* The bucket allow() stores on first sight of an ip.
NewBucket(lim, t) == [tokens |-> lim - 1, lastSeen |-> t]

\* Mutant of ResetBucket: the reset hands out the whole capacity and forgets the
\* token of the current request.
ResetBucketFull(lim, t) == [tokens |-> lim, lastSeen |-> t]

\* The bucket allow() leaves behind on the window-reset branch.
ResetBucket(lim, t) == [tokens |-> lim - 1, lastSeen |-> t]

\* elapsed >= rlm.window
WindowPassed(elapsed, win) == elapsed >= win

\* elapsed >= rlm.window, for Durations.
WindowPassedBy(elapsed, win) ==
    elapsed.sec > win.sec \/ (elapsed.sec = win.sec /\ elapsed.nsec >= win.nsec)

Min(a, b) == IF a < b THEN a ELSE b

\* if limiter.tokens > 0 { limiter.tokens--; return true }; return false
TakeToken(tokens) ==
    IF tokens > 0 THEN [tokens |-> tokens - 1, ok |-> TRUE]
    ELSE [tokens |-> tokens, ok |-> FALSE]

\* The token arithmetic of the refill branch of allow(), for a bucket holding
\* `tokens` and Durations elapsed < win: tokensToAdd is added, the sum is cut
\* down to the limit, and a token is taken if one is there. The token count
\* left and the answer.
RefillTokens(tokens, elapsed, lim, win) ==
    TakeToken(Min(tokens + TokensToAdd(elapsed, lim, win), lim))

\* limiter.lastSeen = now, next to the outcome r of the token arithmetic.
Seen(r, t) == [bucket |-> [tokens |-> r.tokens, lastSeen |-> t], ok |-> r.ok]

\* Mutant of Refill: the refill leaves lastSeen alone, so the same elapsed time
\* is paid out again on the next call.
RefillKeepsLastSeen(b, lim, win, t) ==
    Seen(RefillTokens(b.tokens, Duration(t - b.lastSeen), lim, Duration(win)), b.lastSeen)

\* The refill branch of allow(): the bucket after the call and the answer.
Refill(b, lim, win, t) ==
    Seen(RefillTokens(b.tokens, Duration(t - b.lastSeen), lim, Duration(win)), t)

\* allow() as a function of the manager's state: the new map, the answer and
\* the branch taken.
AllowStep(lims, ip, lim, win, t) ==
    IF ip \notin DOMAIN lims
    THEN [limiters |-> [k \in DOMAIN lims \cup {ip} |->
                           IF k = ip THEN NewBucket(lim, t) ELSE lims[k]],
          ok |-> TRUE, branch |-> "first"]
    ELSE IF WindowPassed(t - lims[ip].lastSeen, win)
    THEN [limiters |-> [lims EXCEPT ![ip] = ResetBucket(lim, t)],
          ok |-> TRUE, branch |-> "reset"]
    ELSE LET r == Refill(lims[ip], lim, win, t)
         IN  [limiters |-> [lims EXCEPT ![ip] = r.bucket],
              ok |-> r.ok, branch |-> "refill"]

\* Mutant of GetRemaining: the read pays out the refill that is due.
GetRemainingRefilled(lims, ip, lim) ==
    IF ip \notin DOMAIN lims THEN lim
    ELSE IF WindowPassed(now - lims[ip].lastSeen, window) THEN lim
    ELSE Min(lims[ip].tokens
               + TokensToAdd(Duration(now - lims[ip].lastSeen), lim, Duration(window)),
             lim)

\* Mutant of GetRemaining: an ip without a bucket is reported as exhausted.
GetRemainingUnknownZero(lims, ip, lim) ==
    IF ip \notin DOMAIN lims THEN 0 ELSE lims[ip].tokens

\* getRemaining(): the stored token count, or the limit for an unknown ip.
GetRemaining(lims, ip, lim) ==
    IF ip \notin DOMAIN lims THEN lim ELSE lims[ip].tokens

\* Mutant of Idle: a bucket counts as idle after one window instead of two.
IdleOneWindow(b, win, t) == t - b.lastSeen > win

\* The test of the cleanup loop: now.Sub(limiter.lastSeen) > rlm.window*2
Idle(b, win, t) == t - b.lastSeen > win * 2

\* One pass of the cleanup loop over the map.
CleanupStep(lims, win, t) ==
    [k \in {k \in DOMAIN lims : ~Idle(lims[k], win, t)} |-> lims[k]]

ValidConfig == limit >= 1 /\ window >= 1

\* The history of grants, kept for the closed interval [t - window, t].
Recent(seq, t) == SelectSeq(seq, LAMBDA g : t - g <= window)

Allow(ip) ==
    LET r == AllowStep(limiters, ip, limit, window, now)
    IN  /\ limiters' = r.limiters
        /\ ret' = Result("Allow", ip, r.ok, 0, r.branch)
        /\ granted' = IF ValidConfig /\ r.ok
                      THEN [granted EXCEPT ![ip] = Append(@, now)]
                      ELSE granted
        /\ UNCHANGED <<limit, window, now, cache, githubTTL, contentTTL, Env, evicted, lastSet>>

Remaining(ip) ==
    /\ ret' = Result("Remaining", ip, TRUE, GetRemaining(limiters, ip, limit), "none")
    /\ UNCHANGED <<limit, window, limiters, now, cache, githubTTL, contentTTL, Env, granted,
                   evicted, lastSet>>

Sweep ==
    /\ limiters' = CleanupStep(limiters, window, now)
    /\ ret' = Result("Sweep", "", TRUE, 0, "none")
    /\ evicted' = evicted \cup (DOMAIN limiters \ DOMAIN limiters')
    /\ UNCHANGED <<limit, window, now, cache, githubTTL, contentTTL, Env, granted, lastSet>>

\* The clock advances by d ticks.
Advance(d) ==
    /\ now' = now + d
    /\ ret' = Result("Tick", "", TRUE, 0, "none")
    /\ granted' = [k \in DOMAIN granted |-> Recent(granted[k], now + d)]
    /\ UNCHANGED <<limit, window, limiters, cache, githubTTL, contentTTL, Env, evicted,
                   lastSet>>

Tick ==
    /\ now < MaxTime
    /\ Advance(1)

\* init() builds the manager with an empty map; RateLimit() then installs the
\* configured limit and window.
LimiterStart(t) ==
    /\ \E le \in LimitEnv : limit = parseInt(le, DefaultLimit)
    /\ \E we \in WindowEnv : window = parseDuration(we, DefaultWindow)
    /\ limiters = << >>
    /\ now = t
    /\ cache = {}
    /\ githubTTL = 0
    /\ contentTTL = 0
    /\ ret = NoRet
    /\ granted = [k \in IPs |-> << >>]
    /\ evicted = {}
    /\ lastSet = << >>
    /\ EnvInit

LimiterInit == LimiterStart(0)

LimiterNext ==
    \/ \E ip \in IPs : Allow(ip)
    \/ \E ip \in IPs : Remaining(ip)
    \/ Sweep
    \/ Tick

Spec == LimiterInit /\ [][LimiterNext]_vars

\* ---------------------------------------------------- the spec's scenario
\* The limiter as init() builds it and an unset environment configures it:
\* 100 requests per 3600 s.
ScenarioIP == "ip1"
\* 36 minutes.
ScenarioWait == 36 * 60 * Second

ScenarioInit ==
    /\ limit = parseInt(Unset, DefaultLimit)
    /\ window = parseDuration(Unset, DefaultWindow)
    /\ limiters = << >>
    /\ now = 0
    /\ cache = {}
    /\ githubTTL = 0
    /\ contentTTL = 0
    /\ ret = NoRet
    /\ granted = [k \in IPs |-> << >>]
    /\ evicted = {}
    /\ lastSet = << >>
    /\ EnvInit

\* Calls in quick succession: the clock does not move between them.
ScenarioBurst ==
    /\ now = 0
    /\ Allow(ScenarioIP)

\* After the first denied call the client waits 36 minutes.
ScenarioPause ==
    /\ now = 0
    /\ ret.op = "Allow" /\ ~ret.ok
    /\ Advance(ScenarioWait)

\* The one call made after the wait.
ScenarioAllowAfterWait ==
    /\ now = ScenarioWait
    /\ limiters[ScenarioIP].lastSeen = 0
    /\ Allow(ScenarioIP)

ScenarioRemaining == Remaining(ScenarioIP)

ScenarioNext ==
    \/ ScenarioBurst
    \/ ScenarioPause
    \/ ScenarioAllowAfterWait
    \/ ScenarioRemaining

ScenarioSpec == ScenarioInit /\ [][ScenarioNext]_vars

\* The burst part of the scenario: a call at time 0 is allowed while fewer than
\* 100 calls have been allowed, and denied once 100 have been.
ScenarioBurstOutcome ==
    (now = 0 /\ ret.op = "Allow") =>
        /\ ret.ok => Len(granted[ScenarioIP]) <= 100
        /\ ~ret.ok => Len(granted[ScenarioIP]) = 100

\* The call after the wait is allowed.
ScenarioCallAfterWaitAllowed ==
    (now = ScenarioWait /\ ret.op = "Allow") => ret.ok

\* Remaining is asked after the wait and before any further allow().
RemainingBeforeNextAllow ==
    /\ now = ScenarioWait
    /\ ret.op = "Remaining"
    /\ limiters[ScenarioIP].lastSeen = 0

\* C8 as stated: capacity 100, window 1h: 100 calls in quick succession are
\* allowed and the 101st is denied; after 36 minutes without a call Remaining
\* shows the floor(0.6*100) = 60 refilled tokens, and the 102nd call is allowed.
C8_RemainingShowsRefillAfterWait ==
    /\ ScenarioBurstOutcome
    /\ RemainingBeforeNextAllow => ret.val = 60
    /\ ScenarioCallAfterWaitAllowed

\* C8 amended: 100 calls in quick succession are allowed and the 101st is denied;
\* after 36 minutes without a call Remaining still returns 0, because tokens are
\* refilled only inside allow(); the 102nd call adds the 60 tokens, is allowed
\* and leaves 59, which Remaining then returns.
C8_RefillOnlyOnAllow ==
    /\ ScenarioBurstOutcome
    /\ RemainingBeforeNextAllow => ret.val = 0
    /\ ScenarioCallAfterWaitAllowed
    /\ (now = ScenarioWait /\ ret.op = "Allow") =>
          limiters[ScenarioIP] = [tokens |-> 59, lastSeen |-> ScenarioWait]
    /\ (now = ScenarioWait /\ ret.op = "Remaining"
          /\ limiters[ScenarioIP].lastSeen = ScenarioWait) => ret.val = 59

\* The 102nd call has been allowed after the wait and Remaining has read the
\* bucket after it.
C8_Witness ==
    /\ now = ScenarioWait
    /\ ret.op = "Remaining" /\ ret.val = 59
    /\ limiters[ScenarioIP].lastSeen = ScenarioWait
    /\ Len(granted[ScenarioIP]) = 101

\* ------------------------------------------------------- limiter properties

\* The grants of ip inside the half-open interval (now - window, now].
GrantsInsideWindow(ip) == SelectSeq(granted[ip], LAMBDA g : now - g < window)

\* C1 as stated: for capacity C and window W, the allow() calls on one key made
\* inside one interval of length W that return true never number more than C.
C1_AtMostCapacityPerWindow ==
    ValidConfig => \A ip \in IPs : Len(GrantsInsideWindow(ip)) <= limit

\* C1 amended: for capacity C >= 1 and window W >= 1, the allow() calls on one key
\* made inside one closed interval of length W that return true never number more
\* than 2*C (the C tokens of the bucket plus at most C refilled or reset ones).
C1_AtMostTwiceCapacityPerWindow ==
    ValidConfig => \A ip \in IPs : Len(granted[ip]) <= 2 * limit

\* A key has been granted 2*C calls inside one window, the last by allow().
C1_Witness ==
    /\ ValidConfig
    /\ ret.op = "Allow" /\ ret.ok
    /\ Len(granted[ret.key]) = 2 * limit
    /\ limit >= 2 /\ window >= 2

\* C2 as stated: after any sequence of Allow, Remaining and Sweep, for every
\* configured capacity and window, every bucket has 0 <= tokens <= capacity and
\* every Remaining result lies in [0, capacity].
C2_TokensWithinCapacity ==
    /\ \A ip \in DOMAIN limiters :
          0 <= limiters[ip].tokens /\ limiters[ip].tokens <= limit
    /\ ret.op = "Remaining" => 0 <= ret.val /\ ret.val <= limit

\* C6: an allow() on an existing bucket whose lastSeen lies at least one window
\* back returns true and leaves tokens = capacity - 1 and lastSeen = now,
\* whatever the bucket held.
C6_WindowReset ==
    [][\A ip \in IPs :
         (/\ ip \in DOMAIN limiters
          /\ now - limiters[ip].lastSeen >= window
          /\ ret'.op = "Allow" /\ ret'.key = ip)
         => (/\ ret'.ok
             /\ limiters'[ip] = [tokens |-> limit - 1, lastSeen |-> now])]_vars

\* allow() has just reset a bucket of a limiter with capacity >= 2 and a window
\* that an exhausted bucket can wait out.
C6_Witness ==
    /\ ValidConfig /\ limit >= 2
    /\ ret.op = "Allow" /\ ret.data = "reset" /\ ret.ok
    /\ limiters[ret.key] = [tokens |-> limit - 1, lastSeen |-> now]
    /\ now >= window

\* C7: a cleanup pass deletes exactly the buckets with now - lastSeen > 2*window
\* and leaves every other bucket as it was; an allow() on a key that has no
\* bucket (never seen, or deleted by cleanup) returns true, stores a bucket with
\* tokens = capacity - 1 and lastSeen = now and leaves the other buckets alone.
C7_SweepThenFirstSight ==
    [][/\ ret'.op = "Sweep" =>
            /\ DOMAIN limiters' =
                  {k \in DOMAIN limiters : ~(now - limiters[k].lastSeen > 2 * window)}
            /\ \A k \in DOMAIN limiters' : limiters'[k] = limiters[k]
       /\ \A ip \in IPs :
            (ip \notin DOMAIN limiters /\ ret'.op = "Allow" /\ ret'.key = ip)
            => (/\ ret'.ok
                /\ DOMAIN limiters' = DOMAIN limiters \cup {ip}
                /\ limiters'[ip] = [tokens |-> limit - 1, lastSeen |-> now]
                /\ \A k \in DOMAIN limiters : limiters'[k] = limiters[k])]_vars

\* allow() has just taken the first-sight branch for a key whose bucket a cleanup
\* pass had deleted, while the other key kept its bucket.
C7_Witness ==
    /\ ValidConfig
    /\ ret.op = "Allow" /\ ret.data = "first" /\ ret.ok
    /\ ret.key \in evicted
    /\ limiters[ret.key].tokens = limit - 1
    /\ DOMAIN limiters = IPs

\* -------------------------------------------------------------------- cache
\* Strings the cache matches against patterns are sequences of characters.
GithubNS == <<"g", "i", "t", "h", "u", "b">>
ContentNS == <<"c", "o", "n", "t", "e", "n", "t">>
Colon == <<":">>
AnySuffix == <<".", "*">>

\* Usernames as they arrive in the :username path parameter.
Alice == <<"a", "l", "i", "c", "e">>
UserNamedContent == <<"c", "o", "n", "t", "e", "n", "t">>
AlDotCe == <<"a", "l", ".", "c", "e">>

\* GitHub data types and content types the services cache.
Profile == <<"p", "r", "o", "f", "i", "l", "e">>
Stats == <<"s", "t", "a", "t", "s">>
Meta == <<"m", "e", "t", "a">>

\* The values the callers hand to Set, by what BSON makes of them. Scalars are
\* strings, booleans, finite numbers and slices of those. Documents are
\* structs and maps (models.GitHubProfile, models.GitHubStats, models.Meta,
\* ...), stored as embedded documents. Lists are slices of structs with at
\* least one element ([]models.GitHubRepository), stored as arrays of embedded
\* documents. EmptyList is a slice that is empty and not nil, stored as an
\* empty array. Nil is a nil interface, pointer, slice or map, stored as null.
\* NotNumbers are the float64 values NaN and +-Inf, stored as doubles.
Scalars == {"s1", "s2"}
Documents == {"d1", "d2"}
Lists == {"l1", "l2"}
EmptyList == "[]"
Nil == "nil"
NotNumbers == {"nan"}

\* The values the single-key cache specifications write.
Payloads == {"d1", "s1", "nan", EmptyList, Nil}

\* cacheEntry.Value is an interface{}: the driver decodes a stored scalar into
\* it as the scalar, an embedded document as a primitive.D, the ordered list of
\* the document's {Key, Value} elements, an array as a primitive.A of the
\* decoded elements, and null as nil.
DecodeValue(value) ==
    IF value \in Documents THEN [go |-> "primitive.D", of |-> value]
    ELSE IF value \in Lists THEN [go |-> "primitive.A of primitive.D", of |-> value]
    ELSE IF value = EmptyList THEN [go |-> "primitive.A{}", of |-> value]
    ELSE IF value = Nil THEN [go |-> "nil", of |-> value]
    ELSE IF value \in NotNumbers THEN [go |-> "NaN", of |-> value]
    ELSE [go |-> "scalar", of |-> value]

\* json.Marshal(cacheEntry.Value): NaN and Inf are unsupported values; a
\* primitive.D is a slice of structs and is rendered as a JSON array of
\* {"Key": ..., "Value": ...} objects; a primitive.A is rendered as the array
\* of its rendered elements, "[]" when it has none; nil is rendered as null; a
\* scalar is rendered as itself.
JsonMarshal(v) ==
    IF v.go = "NaN" THEN [ok |-> FALSE, json |-> "none", of |-> "none"]
    ELSE IF v.go = "primitive.D"
    THEN [ok |-> TRUE, json |-> "array of Key/Value objects", of |-> v.of]
    ELSE IF v.go = "primitive.A of primitive.D"
    THEN [ok |-> TRUE, json |-> "array of arrays of Key/Value objects", of |-> v.of]
    ELSE IF v.go = "primitive.A{}" THEN [ok |-> TRUE, json |-> "[]", of |-> v.of]
    ELSE IF v.go = "nil" THEN [ok |-> TRUE, json |-> "null", of |-> v.of]
    ELSE [ok |-> TRUE, json |-> "scalar", of |-> v.of]

\* json.Unmarshal(jsonBytes, target), the target having the type of the value
\* that was cached. A scalar target takes the scalar; a slice takes "[]" and
\* is the empty list; null leaves the target as it was, nil; a struct or map
\* does not take an array, and the struct that is the element of a slice does
\* not take one either.
JsonUnmarshal(j) ==
    IF j.json = "scalar" THEN [ok |-> TRUE, value |-> j.of]
    ELSE IF j.json = "[]" THEN [ok |-> TRUE, value |-> EmptyList]
    ELSE IF j.json = "null" THEN [ok |-> TRUE, value |-> Nil]
    ELSE [ok |-> FALSE, value |-> "none"]

\* What Get makes of the document FindOne has decoded.
Decoded(value) ==
    LET j == JsonMarshal(DecodeValue(value))
    IN  IF ~j.ok THEN [kind |-> "marshal error", value |-> "none"]
        ELSE LET u == JsonUnmarshal(j)
             IN  IF u.ok THEN [kind |-> "hit", value |-> u.value]
                 ELSE [kind |-> "decode error", value |-> "none"]

\* fmt.Sprintf("github:%s:%s", username, dataType)
GitHubKey(username, dataType) == GithubNS \o Colon \o username \o Colon \o dataType

\* fmt.Sprintf("content:%s", contentType)
ContentKey(contentType) == ContentNS \o Colon \o contentType

\* fmt.Sprintf("github:%s:.*", username)
GitHubPattern(username) == GithubNS \o Colon \o username \o Colon \o AnySuffix

\* pattern := "content:.*"
ContentPattern == ContentNS \o Colon \o AnySuffix

\* The atoms of a pattern: a character, or a character under a star. The
\* patterns the services build hold literals, "." and "*" only.
RECURSIVE Atoms(_)
Atoms(p) ==
    IF p = << >> THEN << >>
    ELSE IF Len(p) >= 2 /\ p[2] = "*"
    THEN <<[ch |-> p[1], star |-> TRUE]>> \o Atoms(SubSeq(p, 3, Len(p)))
    ELSE <<[ch |-> p[1], star |-> FALSE]>> \o Atoms(Tail(p))

CharMatches(c, x) == c = "." \/ c = x

\* Whether atoms i.. match a stretch of str that starts at position j.
RECURSIVE MatchHere(_, _, _, _)
MatchHere(atoms, i, str, j) ==
    IF i > Len(atoms) THEN TRUE
    ELSE IF atoms[i].star
    THEN \E k \in j .. Len(str) + 1 :
            /\ \A m \in j .. k - 1 : CharMatches(atoms[i].ch, str[m])
            /\ MatchHere(atoms, i + 1, str, k)
    ELSE /\ j <= Len(str)
         /\ CharMatches(atoms[i].ch, str[j])
         /\ MatchHere(atoms, i + 1, str, j + 1)

\* {"$regex": pattern}: the pattern matches somewhere in the string (the filter
\* carries no anchors).
RegexMatches(pattern, str) ==
    LET atoms == Atoms(pattern)
    IN  \E start \in 1 .. Len(str) + 1 : MatchHere(atoms, 1, str, start)

\* Mutant of LiveFilter: "$gte" in place of "$gt".
LiveFilterInclusive(d, key, t) == d.key = key /\ d.expires_at >= t

\* The filter {"key": key, "expires_at": {"$gt": time.Now()}} of Get and Exists.
LiveFilter(d, key, t) == d.key = key /\ d.expires_at > t

\* Get: the outcomes FindOne, json.Marshal and json.Unmarshal can give: the
\* store's error, the cache-miss error, or what becomes of one of the live
\* documents of the key: FindOne returns the first the database meets, which
\* is any of them when the key has several.
GetStep(docs, key, t, storeErr) ==
    IF storeErr THEN {[kind |-> "error", value |-> "none"]}
    ELSE LET found == {d \in docs : LiveFilter(d, key, t)}
         IN  IF found = {} THEN {[kind |-> "miss", value |-> "none"]}
             ELSE {Decoded(d.value) : d \in found}

\* Whether a Get can hit, and whether it can only miss.
GetHits(docs, key, t) == \E r \in GetStep(docs, key, t, FALSE) : r.kind = "hit"
GetMisses(docs, key, t) == \A r \in GetStep(docs, key, t, FALSE) : r.kind = "miss"

\* The document Set writes.
Entry(key, value, ttl, t) ==
    [key |-> key, value |-> value, expires_at |-> t + ttl, created_at |-> t]

\* Set: UpdateOne with upsert on {"key": key}: the collections it can leave.
\* The first matching document the database meets is overwritten, or the entry
\* is inserted when none matches.
SetStep(docs, key, value, ttl, t) ==
    LET matching == {d \in docs : d.key = key}
    IN  IF matching = {} THEN {docs \cup {Entry(key, value, ttl, t)}}
        ELSE {(docs \ {d}) \cup {Entry(key, value, ttl, t)} : d \in matching}

\* Delete: DeleteOne on {"key": key}: the collections it can leave. The first
\* matching document the database meets goes, whichever that is.
DeleteStep(docs, key) ==
    LET matching == {d \in docs : d.key = key}
    IN  IF matching = {} THEN {docs} ELSE {docs \ {d} : d \in matching}

\* DeletePattern: DeleteMany on {"key": {"$regex": pattern}}.
DeletePatternStep(docs, pattern) == {d \in docs : ~RegexMatches(pattern, d.key)}

\* Exists: err == nil && count > 0.
ExistsStep(docs, key, t, storeErr) ==
    ~storeErr /\ Cardinality({d \in docs : LiveFilter(d, key, t)}) > 0

\* GetTTL: FindOne on {"key": key}, then remaining := ExpiresAt - now, an error
\* when remaining < 0: the outcomes it can give, one for each document FindOne
\* can return. err is the error handed to the caller: the store's own,
\* mongo.ErrNoDocuments, or "key expired".
GetTTLStep(docs, key, t, storeErr) ==
    LET matching == {d \in docs : d.key = key}
    IN  IF storeErr THEN {[ok |-> FALSE, remaining |-> 0, err |-> "store error"]}
        ELSE IF matching = {}
        THEN {[ok |-> FALSE, remaining |-> 0, err |-> "no documents"]}
        ELSE {IF d.expires_at - t < 0
              THEN [ok |-> FALSE, remaining |-> 0, err |-> "key expired"]
              ELSE [ok |-> TRUE, remaining |-> d.expires_at - t, err |-> "nil"]
              : d \in matching}

\* Mutant of CleanupDocs: the filter is on created_at, so entries that are
\* still live go as well.
CleanupDocsByCreation(docs, t) == {d \in docs : ~(d.created_at < t)}

\* Cleanup: DeleteMany on {"expires_at": {"$lt": time.Now()}}.
CleanupDocs(docs, t) == {d \in docs : ~(d.expires_at < t)}

\* The TTL index on expires_at with expireAfterSeconds 0: the database removes
\* documents whose expires_at has been reached.
TTLIndexDocs(docs, t) == {d \in docs : ~(d.expires_at <= t)}

NoSet == [value |-> "none", at |-> 0, ttl |-> 0, prior |-> "none"]

\* What the cache holds for key when a Set arrives.
PriorKind(docs, key, t) ==
    IF \A d \in docs : d.key # key THEN "absent"
    ELSE IF \E d \in docs : d.key = key /\ t < d.expires_at THEN "live"
    ELSE "expired"

\* The history forgets the Sets whose key a deletion has removed.
Forget(docs) ==
    [k \in DOMAIN lastSet |->
        IF (\E d \in cache : d.key = k) /\ (\A d \in docs : d.key # k)
        THEN NoSet ELSE lastSet[k]]

LimiterIdle == <<limit, window, limiters, granted, evicted>>

\* The write calls return the store's error, and change nothing, when the
\* database does not answer: ok tells whether the error returned is nil.
Set(key, value, ttl) ==
    /\ cache' \in (IF storeUp THEN SetStep(cache, key, value, ttl, now) ELSE {cache})
    /\ ret' = Result("Set", key, storeUp, 0, "none")
    /\ lastSet' = [k \in DOMAIN lastSet |->
                      IF k = key /\ storeUp
                      THEN [value |-> value, at |-> now, ttl |-> ttl,
                            prior |-> PriorKind(cache, key, now)]
                      ELSE lastSet[k]]
    /\ UNCHANGED <<LimiterIdle, now, githubTTL, contentTTL, Env>>

\* SetGitHubData: Set under the GitHub key with the configured GitHub TTL.
SetGitHubData(username, dataType, data) ==
    Set(GitHubKey(username, dataType), data, githubTTL)

\* SetContentData: Set under the content key with the configured content TTL.
SetContentData(contentType, data) ==
    Set(ContentKey(contentType), data, contentTTL)

\* Get: data is the payload on a hit, and otherwise tells the error returned:
\* "miss" for the cache-miss error, "error" for the store's own error,
\* "marshal error" and "decode error" for those of the JSON round trip.
Get(key) ==
    \E r \in GetStep(cache, key, now, ~storeUp) :
        /\ ret' = Result("Get", key, r.kind = "hit", 0,
                         IF r.kind = "hit" THEN r.value ELSE r.kind)
        /\ UNCHANGED <<LimiterIdle, now, cache, githubTTL, contentTTL, Env, lastSet>>

Exists(key) ==
    /\ ret' = Result("Exists", key, ExistsStep(cache, key, now, ~storeUp), 0, "none")
    /\ UNCHANGED <<LimiterIdle, now, cache, githubTTL, contentTTL, Env, lastSet>>

\* GetTTL: data is the error returned with the duration.
GetTTL(key) ==
    \E r \in GetTTLStep(cache, key, now, ~storeUp) :
        /\ ret' = Result("GetTTL", key, r.ok, r.remaining, r.err)
        /\ UNCHANGED <<LimiterIdle, now, cache, githubTTL, contentTTL, Env, lastSet>>

Delete(key) ==
    /\ cache' \in (IF storeUp THEN DeleteStep(cache, key) ELSE {cache})
    /\ ret' = Result("Delete", key, storeUp, 0, "none")
    /\ lastSet' = Forget(cache')
    /\ UNCHANGED <<LimiterIdle, now, githubTTL, contentTTL, Env>>

\* DeletePattern as its two callers use it; val is the number of documents gone.
DeletePattern(op, arg, pattern) ==
    /\ cache' = IF storeUp THEN DeletePatternStep(cache, pattern) ELSE cache
    /\ ret' = Result(op, arg, storeUp, Cardinality(cache) - Cardinality(cache'), "none")
    /\ lastSet' = Forget(cache')
    /\ UNCHANGED <<LimiterIdle, now, githubTTL, contentTTL, Env>>

InvalidateGitHubCache(username) ==
    DeletePattern("InvalidateGitHubCache", username, GitHubPattern(username))

InvalidateContentCache ==
    DeletePattern("InvalidateContentCache", << >>, ContentPattern)

\* One run of the hourly cleanup job.
Cleanup ==
    /\ cache' = IF storeUp THEN CleanupDocs(cache, now) ELSE cache
    /\ ret' = Result("Cleanup", << >>, storeUp, Cardinality(cache) - Cardinality(cache'),
                     "none")
    /\ UNCHANGED <<LimiterIdle, now, githubTTL, contentTTL, Env, lastSet>>

\* One pass of the database's TTL index.
TTLIndexPass ==
    /\ cache' = TTLIndexDocs(cache, now)
    /\ ret' = Result("TTLIndex", << >>, TRUE, 0, "none")
    /\ UNCHANGED <<LimiterIdle, now, githubTTL, contentTTL, Env, lastSet>>

CacheTick ==
    /\ now < MaxCacheTime
    /\ Advance(1)

\* Values of GITHUB_CACHE_TTL and CONTENT_CACHE_TTL the cache specifications
\* explore.
TTLEnv == {Number(n) : n \in 0 .. MaxTTL}

\* Default GITHUB_CACHE_TTL, "6h", and CONTENT_CACHE_TTL, "24h", in hours.
DefaultGitHubTTL == 6
DefaultContentTTL == 24

\* The keys the single-key cache specification reads and writes.
CacheKeys == {GitHubKey(Alice, Profile), ContentKey(Meta)}

\* The cache after NewCacheService(): an empty collection, the TTLs as
\* configured. The history of Sets is kept for the keys in `tracked`.
CacheStart(tracked) ==
    /\ limit = parseInt(Unset, DefaultLimit)
    /\ window = parseDuration(Unset, DefaultWindow)
    /\ limiters = << >>
    /\ granted = [k \in IPs |-> << >>]
    /\ evicted = {}
    /\ now = 0
    /\ cache = {}
    /\ \E e \in TTLEnv : githubTTL = parseDuration(e, DefaultGitHubTTL)
    /\ \E e \in TTLEnv : contentTTL = parseDuration(e, DefaultContentTTL)
    /\ ret = NoRet
    /\ lastSet = [k \in tracked |-> NoSet]
    /\ EnvInit

CacheInit == CacheStart(CacheKeys)

\* The single-key operations, on one GitHub key and one content key.
CacheNext ==
    \/ \E d \in Payloads : SetGitHubData(Alice, Profile, d)
    \/ \E d \in Payloads : SetContentData(Meta, d)
    \/ \E k \in CacheKeys :
          \/ Get(k)
          \/ Exists(k)
          \/ GetTTL(k)
          \/ Delete(k)
    \/ InvalidateGitHubCache(Alice)
    \/ InvalidateContentCache
    \/ Cleanup
    \/ TTLIndexPass
    \/ CacheTick

CacheSpec == CacheInit /\ [][CacheNext]_vars

\* Pattern invalidation, over the keys of two users and of the content.
InvalidationInit == CacheStart({})

InvalidationNext ==
    \/ \E dt \in {Profile, Stats} : SetGitHubData(Alice, dt, "d1")
    \/ SetGitHubData(UserNamedContent, Profile, "d1")
    \/ SetContentData(Meta, "d1")
    \/ \E u \in {Alice, UserNamedContent, AlDotCe} : InvalidateGitHubCache(u)
    \/ InvalidateContentCache
    \/ Cleanup
    \/ CacheTick

InvalidationSpec == InvalidationInit /\ [][InvalidationNext]_vars

\* --------------------------------------------------------- cache properties

\* The entries of key that are live at time t: now < expiresAt.
LiveEntries(key, t) == {d \in cache : d.key = key /\ t < d.expires_at}

\* C3: Get returns a value only from an entry of the key with now < expiresAt,
\* and that entry's value; once the ttl of the last Set on the key has elapsed
\* Get returns the cache-miss error, whether or not a sweep has removed the
\* entry.
C3_GetNeverStale ==
    ret.op = "Get" =>
        /\ ret.ok => \E d \in LiveEntries(ret.key, now) : d.value = ret.data
        /\ LiveEntries(ret.key, now) = {} => ret.data = "miss"
        /\ (/\ lastSet[ret.key] # NoSet
            /\ now >= lastSet[ret.key].at + lastSet[ret.key].ttl)
           => (~ret.ok /\ ret.data = "miss")

\* Get has missed on a key whose entry was live once, has expired and is still
\* in the collection.
C3_Witness ==
    /\ ret.op = "Get" /\ ~ret.ok
    /\ \E d \in cache :
          d.key = ret.key /\ d.created_at < d.expires_at /\ d.expires_at <= now

\* C4 as stated: a Get on a key before the ttl of the last Set on it has
\* elapsed, with no Delete or DeletePattern of the key in between, returns the
\* value of that Set, whatever the cache held for the key when the Set arrived.
C4_SetThenGet ==
    (/\ ret.op = "Get"
     /\ lastSet[ret.key] # NoSet
     /\ now < lastSet[ret.key].at + lastSet[ret.key].ttl)
    => (ret.ok /\ ret.data = lastSet[ret.key].value)

HasPrefix(str, prefix) ==
    Len(str) >= Len(prefix) /\ SubSeq(str, 1, Len(prefix)) = prefix

\* C5 as stated: InvalidateGitHubCache(u) deletes the entries keyed
\* github:<u>:<datatype> and no other; InvalidateContentCache deletes the entries
\* keyed content:<type> and no other; every entry that stays is unchanged.
C5_InvalidationRemovesAllAndOnly ==
    [][/\ ret'.op = "InvalidateGitHubCache" =>
            cache' = {d \in cache :
                        ~HasPrefix(d.key, GithubNS \o Colon \o ret'.key \o Colon)}
       /\ ret'.op = "InvalidateContentCache" =>
            cache' = {d \in cache : ~HasPrefix(d.key, ContentNS \o Colon)}]_vars

\* C9 as stated: GetTTL succeeds exactly when the key has a live entry
\* (now < expiresAt) and then returns expiresAt - now; so it succeeds if and only
\* if Exists is true and Get is a hit, also at the instant now = expiresAt.
C9_GetTTLIffLive ==
    ret.op = "GetTTL" =>
        /\ ret.ok <=> LiveEntries(ret.key, now) # {}
        /\ ret.ok => \E d \in LiveEntries(ret.key, now) : ret.val = d.expires_at - now
        /\ ret.ok <=> ExistsStep(cache, ret.key, now, FALSE)
        /\ ret.ok <=> GetHits(cache, ret.key, now)

\* C10 as stated: Exists is true if and only if the cache holds an entry of the
\* key with now < expiresAt, it leaves the cache as it was, and it is true
\* exactly when a Get at the same instant is a hit.
C10_ExistsIffLive ==
    [][ret'.op = "Exists" =>
          /\ cache' = cache
          /\ ret'.ok <=> LiveEntries(ret'.key, now) # {}
          /\ ret'.ok <=> GetHits(cache, ret'.key, now)]_vars

\* ------------------------------------------------- concurrent Set calls
\* The goroutines that call the cache at the same time.
Procs == {"p1", "p2"}

\* The most Set calls that overlap one another in a chain.
MaxOverlap == 2

\* A stored document: the fields Set writes with "$set", and the _id the
\* database gave the document when it was inserted.
Doc(e, id) ==
    [key |-> e.key, value |-> e.value, expires_at |-> e.expires_at,
     created_at |-> e.created_at, id |-> id]

\* The fields of a stored document that a Set call supplies.
Fields(d) ==
    [key |-> d.key, value |-> d.value, expires_at |-> d.expires_at,
     created_at |-> d.created_at]

\* The calls in flight after goroutine p has taken up call c.
WithCall(p, c) == [q \in DOMAIN calls \cup {p} |-> IF q = p THEN c ELSE calls[q]]

\* The calls in flight after the call of goroutine p has returned.
WithoutCall(p) == [q \in DOMAIN calls \ {p} |-> calls[q]]

\* Set is entered: the entry is built from time.Now() and the update is sent.
SetCall(p, key, value, ttl) ==
    /\ p \notin DOMAIN calls
    /\ DOMAIN calls = {} \/ Cardinality(batch) < MaxOverlap
    /\ calls' = WithCall(p, [op |-> "Set", pc |-> "find",
                             entry |-> Entry(key, value, ttl, now), target |-> "none"])
    /\ batch' = IF DOMAIN calls = {} THEN {Entry(key, value, ttl, now)}
                ELSE batch \cup {Entry(key, value, ttl, now)}
    /\ UNCHANGED <<LimiterIdle, now, cache, githubTTL, contentTTL, ret, lastSet,
                   storeUp, unswept, content, custom, locks>>

\* SetGitHubData, entered by goroutine p.
SetGitHubDataCall(p, username, dataType, data) ==
    SetCall(p, GitHubKey(username, dataType), data, githubTTL)

\* UpdateOne with upsert, first half: the database looks for a document that
\* matches {"key": key}. The collection has no unique index on key, so nothing
\* keeps a second upsert from looking before the first has inserted.
UpsertFind(p) ==
    /\ p \in DOMAIN calls
    /\ calls[p].op = "Set" /\ calls[p].pc = "find"
    /\ LET matching == {d \in cache : d.key = calls[p].entry.key}
       IN  \E m \in {d.id : d \in matching} \cup {"none"} :
              /\ (m = "none") <=> (matching = {})
              /\ calls' = [calls EXCEPT ![p].pc = "write", ![p].target = m]
    /\ UNCHANGED <<LimiterIdle, now, cache, githubTTL, contentTTL, ret, lastSet,
                   storeUp, batch, unswept, content, custom, locks>>

\* UpdateOne with upsert, second half: the document found is overwritten, or a
\* new one is inserted when none was found; when the document found has gone
\* in between, the database looks again. Set then returns.
UpsertWrite(p) ==
    /\ p \in DOMAIN calls
    /\ calls[p].op = "Set" /\ calls[p].pc = "write"
    /\ LET c == calls[p]
           found == {d \in cache : d.key = c.entry.key /\ d.id = c.target}
       IN  IF c.target # "none" /\ found = {}
           THEN /\ calls' = [calls EXCEPT ![p].pc = "find", ![p].target = "none"]
                /\ UNCHANGED <<cache, ret>>
           ELSE /\ cache' = (cache \ found) \cup
                            {Doc(c.entry, IF c.target = "none" THEN p ELSE c.target)}
                /\ calls' = WithoutCall(p)
                /\ ret' = Result("Set", c.entry.key, TRUE, 0, "none")
    /\ UNCHANGED <<LimiterIdle, now, githubTTL, contentTTL, lastSet, storeUp, batch,
                   unswept, content, custom, locks>>

\* The payload each goroutine has fetched and is about to cache.
PayloadOf == [p \in Procs |-> IF p = "p1" THEN "s1" ELSE "d2"]

UpsertInit == CacheStart({})

\* Set calls of two goroutines on one GitHub key, with the other cache
\* operations, and Set calls on a content key, running between their steps.
UpsertNext ==
    \/ \E p \in Procs : SetGitHubDataCall(p, Alice, Profile, PayloadOf[p])
    \/ SetContentData(Meta, "d1")
    \/ \E p \in Procs : UpsertFind(p)
    \/ \E p \in Procs : UpsertWrite(p)
    \/ \E k \in CacheKeys :
          \/ Get(k)
          \/ Delete(k)
    \/ InvalidateContentCache
    \/ Cleanup
    \/ CacheTick

UpsertSpec == UpsertInit /\ [][UpsertNext]_vars

\* The documents stored under key.
DocsOf(docs, key) == {d \in docs : d.key = key}

\* C11 as stated: once the Set calls that ran at the same time on a key have all
\* returned, what is stored under the key is the complete entry (value,
\* expires_at, created_at) of one of those calls: no mixture of two calls, and
\* no entry older than those calls.
C11_LastWriterWins ==
    (DOMAIN calls = {} /\ ret.op = "Set" /\ ret.key = GitHubKey(Alice, Profile)) =>
        /\ DocsOf(cache, ret.key) # {}
        /\ \A d \in DocsOf(cache, ret.key) : Fields(d) \in batch

\* C12 as stated: the collection never holds two documents with the same key,
\* so after a Delete of a key a Get of it misses.
C12_KeysUnique ==
    [][/\ \A k \in CacheKeys : Cardinality(DocsOf(cache', k)) <= 1
       /\ ret'.op = "Delete" => GetMisses(cache', ret'.key, now)]_vars

\* C13 as stated: Delete returns no error whether or not the key is there; after
\* it Get and Exists report absence; the documents of every other key are as
\* they were.
C13_DeleteRemovesKey ==
    [][ret'.op = "Delete" =>
          /\ ret'.ok
          /\ GetMisses(cache', ret'.key, now)
          /\ ~ExistsStep(cache', ret'.key, now, FALSE)
          /\ {d \in cache' : d.key # ret'.key} = {d \in cache : d.key # ret'.key}]_vars

\* ------------------------------------------------ limiter reads, middleware

\* C14: getRemaining changes nothing in the manager: it creates no bucket and
\* leaves tokens and lastSeen of every bucket as they were; it returns the
\* stored tokens of the ip's bucket, or the limit when the ip has no bucket
\* (never seen, or deleted by cleanup).
C14_RemainingReadsOnly ==
    [][ret'.op = "Remaining" =>
          /\ limiters' = limiters
          /\ ret'.val = IF ret'.key \in DOMAIN limiters
                        THEN limiters[ret'.key].tokens ELSE limit]_vars

\* getRemaining has answered the limit for an ip whose bucket cleanup had
\* deleted, while the other ip's bucket, partly used, stayed as it was.
C14_Witness ==
    /\ ValidConfig
    /\ ret.op = "Remaining" /\ ret.val = limit
    /\ ret.key \in evicted /\ ret.key \notin DOMAIN limiters
    /\ \E k \in DOMAIN limiters : limiters[k].tokens < limit - 1

\* Time.Unix(): the whole seconds of an instant, its fraction dropped. The
\* clock's 0 is on a whole second.
Unix(t) == t \div Second

\* Mutant of DeniedResponse: the reset time is the time of the denial itself.
DeniedResponseResetNow(lim, win, t) ==
    [status |-> 429,
     headers |-> [Limit |-> lim, Remaining |-> 0, Reset |-> Unix(t), Window |-> win],
     next |-> FALSE]

\* What the middleware writes when allow() has returned false: the four
\* X-Rate-Limit headers, the 429 body, and c.Abort() in place of c.Next().
\* X-Rate-Limit-Reset is resetTime.Unix(), in whole seconds; the window is
\* written as a Duration.
DeniedResponse(lim, win, t) ==
    [status |-> 429,
     headers |-> [Limit |-> lim, Remaining |-> 0, Reset |-> Unix(t + win),
                  Window |-> win],
     next |-> FALSE]

\* What the middleware writes when allow() has returned true: three headers,
\* then c.Next() runs the downstream handlers, which write the status.
AllowedResponse(lim, win, remaining) ==
    [status |-> 0,
     headers |-> [Limit |-> lim, Remaining |-> remaining, Window |-> win],
     next |-> TRUE]

NoResponse == [status |-> 0, headers |-> << >>, next |-> FALSE]

\* Whether goroutine p is free to take up a request.
Free(p) == IF p \in DOMAIN calls THEN calls[p].pc = "done" ELSE TRUE

\* The middleware of a request of ip, up to the return of allow(), which has
\* released its locks: a denied request goes on to the denial, an allowed one
\* to getRemaining(). `at` is the time allow() read, `after` the token count
\* it left in the bucket.
HandlerAllow(p, ip) ==
    /\ Free(p)
    /\ LET r == AllowStep(limiters, ip, limit, window, now)
       IN  /\ limiters' = r.limiters
           /\ ret' = Result("Allow", ip, r.ok, 0, r.branch)
           /\ calls' = WithCall(p,
                 [op |-> "Request", ip |-> ip, allowed |-> r.ok, at |-> now,
                  after |-> r.limiters[ip].tokens,
                  pc |-> IF r.ok THEN "remaining" ELSE "deny",
                  deniedAt |-> 0,
                  response |-> NoResponse])
    /\ UNCHANGED <<limit, window, now, cache, githubTTL, contentTTL, granted, evicted,
                   lastSet, storeUp, batch, unswept, content, custom, locks>>

\* The denial: the middleware reads the clock again for the reset time, which
\* is the time of this reading + window, writes the headers (the reset time in
\* whole seconds) and the 429 body and aborts. `deniedAt` keeps the time read.
HandlerDeny(p) ==
    /\ p \in DOMAIN calls
    /\ calls[p].op = "Request" /\ calls[p].pc = "deny"
    /\ calls' = [calls EXCEPT ![p].pc = "done",
                              ![p].deniedAt = now,
                              ![p].response = DeniedResponse(limit, window, now)]
    /\ ret' = Result("Deny", calls[p].ip, FALSE, Unix(now + window), "none")
    /\ UNCHANGED <<limit, window, limiters, now, cache, githubTTL, contentTTL, granted,
                   evicted, lastSet, storeUp, batch, unswept, content, custom, locks>>

\* The rest of the middleware of an allowed request: getRemaining(), the
\* headers, c.Next().
HandlerRemaining(p) ==
    /\ p \in DOMAIN calls
    /\ calls[p].op = "Request" /\ calls[p].pc = "remaining"
    /\ LET remaining == GetRemaining(limiters, calls[p].ip, limit)
       IN  /\ calls' = [calls EXCEPT ![p].pc = "done",
                           ![p].response = AllowedResponse(limit, window, remaining)]
           /\ ret' = Result("Remaining", calls[p].ip, TRUE, remaining, "none")
    /\ UNCHANGED <<limit, window, limiters, now, cache, githubTTL, contentTTL, granted,
                   evicted, lastSet, storeUp, batch, unswept, content, custom, locks>>

\* The server comes up 0.6 s into a second, so that the reset times of a run
\* lie on both sides of a whole second.
MiddlewareStart == Second - 4

MiddlewareInit == LimiterStart(MiddlewareStart)

MiddlewareTick ==
    /\ now < MiddlewareStart + MaxTime
    /\ Advance(1)

\* Requests of one client, served by two goroutines, through the RateLimit
\* middleware, with the cleanup pass and the clock running between their steps.
MiddlewareNext ==
    \/ \E p \in Procs : HandlerAllow(p, ScenarioIP)
    \/ \E p \in Procs : HandlerDeny(p)
    \/ \E p \in Procs : HandlerRemaining(p)
    \/ Sweep
    \/ MiddlewareTick

MiddlewareSpec == MiddlewareInit /\ [][MiddlewareNext]_vars

\* The requests the middleware has finished with.
Answered == {p \in DOMAIN calls : calls[p].op = "Request" /\ calls[p].pc = "done"}

RemainingHeaderIsOwnCount ==
    \A p \in Answered :
        calls[p].allowed => calls[p].response.headers.Remaining = calls[p].after

\* An allowed request carries the four headers of a denial.
SuccessHeadersAsOnDenial ==
    \A p \in Answered :
        calls[p].allowed =>
            DOMAIN calls[p].response.headers = {"Limit", "Remaining", "Reset", "Window"}

\* C16 as stated: for an allowed request the X-Rate-Limit-Remaining header is
\* the token count its own allow() left in the bucket, whatever ran between
\* allow() and getRemaining(), and the headers are the four of a denial: Limit,
\* Remaining, Reset, Window.
C16_RemainingHeaderIsOwnCount ==
    /\ RemainingHeaderIsOwnCount
    /\ SuccessHeadersAsOnDenial

\* ---------------------------------------------------- the store failing
\* The database stops answering: it is unreachable, or the caller's context
\* is cancelled or past its deadline, so every call on it returns an error.
StoreFails ==
    /\ storeUp
    /\ storeUp' = FALSE
    /\ ret' = Result("StoreFails", << >>, TRUE, 0, "none")
    /\ UNCHANGED <<LimiterIdle, now, cache, githubTTL, contentTTL, lastSet, calls,
                   batch, unswept, content, custom, locks>>

\* The database answers again.
StoreRecovers ==
    /\ ~storeUp
    /\ storeUp' = TRUE
    /\ ret' = Result("StoreRecovers", << >>, TRUE, 0, "none")
    /\ UNCHANGED <<LimiterIdle, now, cache, githubTTL, contentTTL, lastSet, calls,
                   batch, unswept, content, custom, locks>>

\* The cache operations, with the database failing and recovering between them.
FaultNext ==
    \/ CacheNext
    \/ StoreFails
    \/ StoreRecovers

FaultSpec == CacheInit /\ [][FaultNext]_vars

\* C17 as stated: a Get, Exists or GetTTL made while the store cannot be read
\* reports an outcome that differs from the one for a key that is not there:
\* Get does not answer with the cache-miss error, Exists does not answer false,
\* GetTTL answers neither "no documents" nor "key expired".
C17_StoreFailureIsNotAMiss ==
    [][~storeUp =>
          /\ ret'.op = "Get" => ret'.data # "miss"
          /\ ret'.op = "Exists" => ret'.ok # ExistsStep({}, ret'.key, now, FALSE)
          /\ ret'.op = "GetTTL" => ret'.data \notin {"no documents", "key expired"}]_vars

\* ------------------------------------------------------------ startup
\* main(): config.Load() reads the four settings from the environment, nothing
\* checks them, RateLimit() installs limit and window in the manager, and the
\* server starts to serve.
ServiceInit ==
    /\ \E le \in LimitEnv : limit = parseInt(le, DefaultLimit)
    /\ \E we \in WindowEnv : window = parseDuration(we, DefaultWindow)
    /\ \E e \in TTLEnv : githubTTL = parseDuration(e, DefaultGitHubTTL)
    /\ \E e \in TTLEnv : contentTTL = parseDuration(e, DefaultContentTTL)
    /\ limiters = << >>
    /\ now = 0
    /\ cache = {}
    /\ ret = NoRet
    /\ granted = [k \in IPs |-> << >>]
    /\ evicted = {}
    /\ lastSet = << >>
    /\ EnvInit

\* The service at work: requests pass the limiter, the services fill the cache.
ServiceNext ==
    \/ Allow(ScenarioIP)
    \/ SetGitHubData(Alice, Profile, "d1")
    \/ SetContentData(Meta, "d1")
    \/ CacheTick

ServiceSpec == ServiceInit /\ [][ServiceNext]_vars

\* C18 as stated: the service never serves an allow() with limit <= 0 or
\* window <= 0, and never performs a cache Set with ttl <= 0: such settings
\* stop the service at startup.
C18_NonPositiveConfigRejected ==
    /\ ret.op = "Allow" => (limit > 0 /\ window > 0)
    /\ (ret.op = "Set" /\ ret.key = GitHubKey(Alice, Profile)) => githubTTL > 0
    /\ (ret.op = "Set" /\ ret.key = ContentKey(Meta)) => contentTTL > 0

\* ------------------------------------------------------- content writes
Portfolio == <<"p", "o", "r", "t", "f", "o", "l", "i", "o">>

\* Largest version a content document reaches in the content specification.
MaxVersion == 2

\* The data a PUT body can carry for the meta document: objects with the
\* fields of models.Meta ("d1", "d2"), such an object with a field models.Meta
\* does not have ("d1x"), and data that is no such object, a string or an
\* object whose name is a number ("x"). UpdateContent stores what it is given.
Malformed == {"x"}
ContentData == {"d2", "d1x", "x"}

\* convertToStruct(content.Data, &meta): bson.Marshal of the stored data, then
\* bson.Unmarshal into models.Meta. Data that is no document, or whose fields
\* have other types than those of models.Meta, gives an error; the fields
\* models.Meta does not have are dropped.
ConvertToStruct(data) ==
    IF data \in Malformed THEN [ok |-> FALSE, value |-> "none"]
    ELSE IF data = "d1x" THEN [ok |-> TRUE, value |-> "d1"]
    ELSE [ok |-> TRUE, value |-> data]

\* The document InitializeDefaultContent() stores for a content type.
DefaultContent(contentType) == [type |-> contentType, data |-> "d1", version |-> 1]

\* The documents of a content type.
ContentOf(docs, contentType) == {c \in docs : c.type = contentType}

\* The cache entries of the content namespace.
ContentEntries(docs) == {d \in docs : HasPrefix(d.key, ContentNS \o Colon)}

\* UpdateContent is entered: FindOne reads the existing document of the type
\* to take its version; every error (no document, or the store failing) leaves
\* version = 1. `snapshot` keeps the content entries the cache held at entry.
UpdateContentCall(p, contentType, data) ==
    /\ p \notin DOMAIN calls
    /\ LET existing == ContentOf(content, contentType)
           found == IF ~storeUp THEN "error"
                    ELSE IF existing = {} THEN "none" ELSE "found"
           version == IF found = "found"
                      THEN (CHOOSE c \in existing : TRUE).version + 1 ELSE 1
       IN  /\ version <= MaxVersion
           /\ calls' = WithCall(p, [op |-> "UpdateContent", pc |-> "write",
                                    type |-> contentType, data |-> data,
                                    found |-> found, version |-> version,
                                    snapshot |-> ContentEntries(cache)])
    /\ UNCHANGED <<LimiterIdle, now, cache, githubTTL, contentTTL, ret, lastSet,
                   storeUp, batch, unswept, content, custom, locks>>

\* The write to the content collection: InsertOne when FindOne reported no
\* document, UpdateOne on the type otherwise. An error of the write is
\* returned to the caller and ends the call.
UpdateContentWrite(p) ==
    /\ p \in DOMAIN calls
    /\ calls[p].op = "UpdateContent" /\ calls[p].pc = "write"
    /\ LET c == calls[p]
           doc == [type |-> c.type, data |-> c.data, version |-> c.version]
           existing == ContentOf(content, c.type)
       IN  IF ~storeUp
           THEN /\ calls' = WithoutCall(p)
                /\ ret' = Result("UpdateContent", c.type, FALSE, 0, "none")
                /\ UNCHANGED content
           ELSE /\ calls' = [calls EXCEPT ![p].pc = "invalidate"]
                /\ content' = IF c.found = "none" THEN content \cup {doc}
                              ELSE IF existing = {} THEN content
                              ELSE (content \ {CHOOSE x \in existing : TRUE}) \cup {doc}
                /\ UNCHANGED ret
    /\ UNCHANGED <<LimiterIdle, now, cache, githubTTL, contentTTL, lastSet, storeUp,
                   batch, unswept, custom, locks>>

\* The end of UpdateContent: InvalidateContentCache is called, its error is
\* dropped, and nil is returned.
UpdateContentInvalidate(p) ==
    /\ p \in DOMAIN calls
    /\ calls[p].op = "UpdateContent" /\ calls[p].pc = "invalidate"
    /\ cache' = IF storeUp THEN DeletePatternStep(cache, ContentPattern) ELSE cache
    /\ calls' = WithoutCall(p)
    /\ ret' = Result("UpdateContent", calls[p].type, TRUE, 0, "none")
    /\ UNCHANGED <<LimiterIdle, now, githubTTL, contentTTL, lastSet, storeUp, batch,
                   unswept, content, custom, locks>>

\* The content collection holds the default document, the cache is empty.
ContentInit ==
    /\ limit = parseInt(Unset, DefaultLimit)
    /\ window = parseDuration(Unset, DefaultWindow)
    /\ limiters = << >>
    /\ granted = [k \in IPs |-> << >>]
    /\ evicted = {}
    /\ now = 0
    /\ cache = {}
    /\ githubTTL = parseDuration(Unset, DefaultGitHubTTL)
    /\ contentTTL = parseDuration(Unset, DefaultContentTTL)
    /\ ret = NoRet
    /\ lastSet = << >>
    /\ storeUp = TRUE
    /\ calls = << >>
    /\ batch = {}
    /\ unswept = {}
    /\ content = {DefaultContent(Meta)}
    /\ custom = NoManager
    /\ locks = NoLocks

\* The goroutine that serves the content updates.
Updater == "p1"

\* Content updates, the readers' cache fills, and the store failing and
\* recovering between their steps.
ContentNext ==
    \/ \E d \in ContentData : UpdateContentCall(Updater, Meta, d)
    \/ UpdateContentWrite(Updater)
    \/ UpdateContentInvalidate(Updater)
    \/ \E t \in {Meta, Portfolio} : SetContentData(t, "d1")
    \/ StoreFails
    \/ StoreRecovers
    \/ CacheTick

ContentSpec == ContentInit /\ [][ContentNext]_vars

\* C19 as stated: when UpdateContent returns success, every content:* cache
\* entry that was there when the call started has been removed, also when
\* calls on the store fail.
C19_UpdateInvalidatesContent ==
    [][\A p \in DOMAIN calls :
          (/\ calls[p].op = "UpdateContent"
           /\ p \notin DOMAIN calls'
           /\ ret'.op = "UpdateContent" /\ ret'.ok)
          => calls[p].snapshot \cap cache' = {}]_vars

\* ------------------------------------------------- the sweep as housekeeping
\* Set and Delete, run on the collection and, for comparison, on the
\* collection as it would be had no sweep ever run.
ShadowedSet(key, value, ttl) ==
    /\ cache' \in SetStep(cache, key, value, ttl, now)
    /\ unswept' \in SetStep(unswept, key, value, ttl, now)
    /\ ret' = Result("Set", key, TRUE, 0, "none")
    /\ UNCHANGED <<LimiterIdle, now, githubTTL, contentTTL, lastSet, storeUp, calls,
                   batch, content, custom, locks>>

ShadowedDelete(key) ==
    /\ cache' \in DeleteStep(cache, key)
    /\ unswept' \in DeleteStep(unswept, key)
    /\ ret' = Result("Delete", key, TRUE, 0, "none")
    /\ UNCHANGED <<LimiterIdle, now, githubTTL, contentTTL, lastSet, storeUp, calls,
                   batch, content, custom, locks>>

\* Sequences of Set, Get, Exists and Delete, with the cleanup job and the TTL
\* index running at any points between them.
SweepNext ==
    \/ \E d \in Payloads : ShadowedSet(GitHubKey(Alice, Profile), d, githubTTL)
    \/ \E d \in Payloads : ShadowedSet(ContentKey(Meta), d, contentTTL)
    \/ \E k \in CacheKeys :
          \/ Get(k)
          \/ Exists(k)
          \/ ShadowedDelete(k)
    \/ Cleanup
    \/ TTLIndexPass
    \/ CacheTick

SweepSpec == CacheStart({}) /\ [][SweepNext]_vars

\* C20: Cleanup deletes every entry with expires_at < now and no entry that is
\* live; and every Get and Exists gives the outcome, and Get the value, it
\* would give had no sweep ever run.
C20_SweepIsHousekeeping ==
    [][/\ ret'.op = "Cleanup" =>
            /\ cache' = {d \in cache : ~(d.expires_at < now)}
            /\ \A d \in cache : now < d.expires_at => d \in cache'
       /\ ret'.op = "Get" =>
            /\ GetStep(cache, ret'.key, now, FALSE) = GetStep(unswept, ret'.key, now, FALSE)
            /\ \E r \in GetStep(unswept, ret'.key, now, FALSE) :
                  /\ ret'.ok <=> r.kind = "hit"
                  /\ ret'.data = IF r.kind = "hit" THEN r.value ELSE r.kind
       /\ ret'.op = "Exists" =>
            (ret'.ok <=> ExistsStep(unswept, ret'.key, now, FALSE))]_vars

\* Get has hit on a key while the sweep has removed the expired entry of the
\* other key, which the never-swept collection still holds.
C20_Witness ==
    /\ ret.op = "Get" /\ ret.ok
    /\ \E d \in unswept : d \notin cache /\ d.created_at < d.expires_at


\* ------------------------------------------------ several limiter instances
\* The policies that the bounded runs hand to CustomRateLimit.
MaxCustomLimit == 2
MaxCustomWindow == 2

\* CustomRateLimit(limit, window) builds a manager of its own: a fresh map
\* and the limit and window of its arguments. The handler it returns closes
\* over that manager and over no other.
CustomRateLimit(lim, win) == [limit |-> lim, window |-> win, limiters |-> << >>]

\* GitHubRateLimit() is CustomRateLimit(30, time.Hour).
GitHubLimit == 30
GitHubWindow == 3600 * Second
GitHubRateLimit == CustomRateLimit(GitHubLimit, GitHubWindow)

\* A handler of CustomRateLimit that would work on the package's manager.
CustomAllowShared(ip) ==
    LET r == AllowStep(limiters, ip, custom.limit, custom.window, now)
    IN  /\ limiters' = r.limiters
        /\ ret' = Result("CustomAllow", ip, r.ok, 0, r.branch)
        /\ UNCHANGED <<limit, window, now, cache, githubTTL, contentTTL, granted,
                       evicted, lastSet, storeUp, calls, batch, unswept, content,
                       custom, locks>>

\* customManager.allow(ip) in the handler of CustomRateLimit.
CustomAllow(ip) ==
    LET r == AllowStep(custom.limiters, ip, custom.limit, custom.window, now)
    IN  /\ custom' = [custom EXCEPT !.limiters = r.limiters]
        /\ ret' = Result("CustomAllow", ip, r.ok, 0, r.branch)
        /\ UNCHANGED <<limit, window, limiters, now, cache, githubTTL, contentTTL,
                       granted, evicted, lastSet, storeUp, calls, batch, unswept,
                       content, locks>>

\* customManager.getRemaining(ip) in the handler of CustomRateLimit.
CustomRemaining(ip) ==
    /\ ret' = Result("CustomRemaining", ip, TRUE,
                     GetRemaining(custom.limiters, ip, custom.limit), "none")
    /\ UNCHANGED <<limit, window, limiters, now, cache, githubTTL, contentTTL,
                   granted, evicted, lastSet, storeUp, calls, batch, unswept,
                   content, custom, locks>>

\* One pass of the goroutine `go customManager.cleanup()`.
CustomSweep ==
    /\ custom' = [custom EXCEPT
                    !.limiters = CleanupStep(custom.limiters, custom.window, now)]
    /\ ret' = Result("CustomSweep", "", TRUE, 0, "none")
    /\ UNCHANGED <<limit, window, limiters, now, cache, githubTTL, contentTTL,
                   granted, evicted, lastSet, storeUp, calls, batch, unswept,
                   content, locks>>

\* SetupRoutes: the package's manager under r.Use(RateLimit()), configured
\* from the environment, and one CustomRateLimit manager beside it.
InstanceInit ==
    /\ \E le \in {Number(1), Number(MaxLimit)} : limit = parseInt(le, DefaultLimit)
    /\ window = parseDuration(Number(MaxWindow), DefaultWindow)
    /\ limiters = << >>
    /\ now = 0
    /\ cache = {}
    /\ githubTTL = 0
    /\ contentTTL = 0
    /\ ret = NoRet
    /\ granted = [k \in IPs |-> << >>]
    /\ evicted = {}
    /\ lastSet = << >>
    /\ storeUp = TRUE
    /\ calls = << >>
    /\ batch = {}
    /\ unswept = {}
    /\ content = {}
    /\ \E lim \in 1..MaxCustomLimit, win \in 1..MaxCustomWindow :
          custom = CustomRateLimit(lim, win)
    /\ locks = NoLocks

InstanceNext ==
    \/ Allow(ScenarioIP)
    \/ Remaining(ScenarioIP)
    \/ Sweep
    \/ CustomAllow(ScenarioIP)
    \/ CustomRemaining(ScenarioIP)
    \/ CustomSweep
    \/ Tick

InstanceSpec == InstanceInit /\ [][InstanceNext]_vars

\* C21: the package's manager and a CustomRateLimit manager are independent.
\* allow, getRemaining and cleanup of the package's manager leave the custom
\* manager's limit, window and every bucket of it as they were, and those of
\* the custom manager leave the package's limit, window and buckets as they
\* were, also when both hold a bucket for the same key.
C21_InstancesIndependent ==
    [][ /\ ret'.op \in {"Allow", "Remaining", "Sweep", "Tick"} => custom' = custom
        /\ ret'.op \in {"CustomAllow", "CustomRemaining", "CustomSweep", "Tick"}
              => <<limit, window, limiters>>' = <<limit, window, limiters>> ]_vars

\* A key holds a bucket in both managers, with different token counts, right
\* after an allow() of the custom manager.
C21_Witness ==
    /\ ret.op = "CustomAllow"
    /\ ret.key \in DOMAIN limiters
    /\ ret.key \in DOMAIN custom.limiters
    /\ limiters[ret.key].tokens # custom.limiters[ret.key].tokens


\* ------------------------------------------- allow() against the reference
\* C22: allow(key) is the reference token-bucket step. On first sight of the
\* key it stores tokens = limit - 1 and lastSeen = now, answers true and
\* leaves every other bucket as it was. On an existing bucket with
\* elapsed < window it adds floor(elapsed * limit / window) tokens, clamps to
\* the limit, sets lastSeen = now, and then answers true with one token less
\* when tokens > 0, and answers false with tokens left at 0 otherwise.
C22_AllowIsReferenceStep ==
    [][ ret'.op = "Allow" =>
          LET k == ret'.key
          IN  IF k \notin DOMAIN limiters
              THEN /\ DOMAIN limiters' = DOMAIN limiters \cup {k}
                   /\ limiters'[k] = [tokens |-> limit - 1, lastSeen |-> now]
                   /\ ret'.ok
                   /\ \A j \in DOMAIN limiters : limiters'[j] = limiters[j]
              ELSE LET elapsed == now - limiters[k].lastSeen
                       filled == Min(limiters[k].tokens
                                       + ((elapsed * limit) \div window), limit)
                   IN  elapsed < window =>
                          /\ limiters'[k].lastSeen = now
                          /\ IF filled > 0
                             THEN ret'.ok /\ limiters'[k].tokens = filled - 1
                             ELSE ~ret'.ok /\ limiters'[k].tokens = 0 ]_vars


\* ------------------------------------------------- the locks of the manager
\* The clock of the runs that follow every lock operation.
MaxLockTime == 3

\* The goroutine started by `go rateLimitManager.cleanup()`.
Sweeper == "sweeper"

\* rlm.mutex.Lock() in two halves, as sync.RWMutex does it: the writer takes
\* the writers' mutex and announces itself, which holds back every later
\* RLock(), and then waits until the readers that were inside have left.
CanLock(l) == l.writer = "none"
Lock(l, p) == [l EXCEPT !.writer = p]
Drained(l) == l.readers = {}
\* rlm.mutex.Unlock()
Unlock(l) == [l EXCEPT !.writer = "none"]
\* rlm.mutex.RLock() waits while a writer holds the lock or has announced itself.
CanRLock(l) == l.writer = "none"
RLock(l, p) == [l EXCEPT !.readers = @ \cup {p}]
\* rlm.mutex.RUnlock()
RUnlock(l, p) == [l EXCEPT !.readers = @ \ {p}]
\* limiter.mutex.Lock() and Unlock() of the bucket of key k.
CanLockBucket(l, k) == l.bucket[k] = "none"
LockBucket(l, k, p) == [l EXCEPT !.bucket[k] = p]
UnlockBucket(l, k) == [l EXCEPT !.bucket[k] = "none"]

\* What the steps of the lock-level runs leave alone.
LockIdle == <<limit, window, cache, githubTTL, contentTTL, granted, evicted, lastSet,
              storeUp, batch, unswept, content, custom>>

\* allow(ip) is entered by goroutine p.
AllowCall(p, ip) ==
    /\ p \notin DOMAIN calls
    /\ calls' = WithCall(p, [op |-> "allow", pc |-> "lock", ip |-> ip])
    /\ UNCHANGED <<LockIdle, limiters, now, ret, locks>>

\* allow(), line 308: rlm.mutex.Lock() is granted the writers' mutex.
AllowLock(p) ==
    /\ p \in DOMAIN calls
    /\ calls[p].op = "allow" /\ calls[p].pc = "lock"
    /\ CanLock(locks)
    /\ locks' = Lock(locks, p)
    /\ calls' = [calls EXCEPT ![p].pc = "drain"]
    /\ UNCHANGED <<LockIdle, limiters, now, ret>>

\* allow(), lines 308-318: Lock() returns once the readers have left; the map
\* is looked up; an unknown ip gets its bucket and the call returns true,
\* the deferred Unlock() releasing the manager.
AllowLookup(p) ==
    /\ p \in DOMAIN calls
    /\ calls[p].op = "allow" /\ calls[p].pc = "drain"
    /\ Drained(locks)
    /\ LET ip == calls[p].ip
       IN  IF ip \notin DOMAIN limiters
           THEN /\ limiters' = AllowStep(limiters, ip, limit, window, now).limiters
                /\ locks' = Unlock(locks)
                /\ calls' = WithoutCall(p)
                /\ ret' = Result("Allow", ip, TRUE, 0, "first")
           ELSE /\ calls' = [calls EXCEPT ![p].pc = "lockBucket"]
                /\ UNCHANGED <<limiters, locks, ret>>
    /\ UNCHANGED <<LockIdle, now>>

\* allow(), line 320: limiter.mutex.Lock(), with the manager's lock still held.
AllowLockBucket(p) ==
    /\ p \in DOMAIN calls
    /\ calls[p].op = "allow" /\ calls[p].pc = "lockBucket"
    /\ CanLockBucket(locks, calls[p].ip)
    /\ locks' = LockBucket(locks, calls[p].ip, p)
    /\ calls' = [calls EXCEPT ![p].pc = "update"]
    /\ UNCHANGED <<LockIdle, limiters, now, ret>>

\* allow(), lines 323-346: the window reset or the refill of the bucket, and
\* the return, on which the deferred calls unlock the bucket and then the
\* manager.
AllowUpdate(p) ==
    /\ p \in DOMAIN calls
    /\ calls[p].op = "allow" /\ calls[p].pc = "update"
    /\ LET ip == calls[p].ip
           r == AllowStep(limiters, ip, limit, window, now)
       IN  /\ limiters' = r.limiters
           /\ locks' = Unlock(UnlockBucket(locks, ip))
           /\ calls' = WithoutCall(p)
           /\ ret' = Result("Allow", ip, r.ok, 0, r.branch)
    /\ UNCHANGED <<LockIdle, now>>

\* getRemaining(ip) is entered by goroutine p.
RemainingCall(p, ip) ==
    /\ p \notin DOMAIN calls
    /\ calls' = WithCall(p, [op |-> "getRemaining", pc |-> "rlock", ip |-> ip])
    /\ UNCHANGED <<LockIdle, limiters, now, ret, locks>>

\* getRemaining(), line 350: rlm.mutex.RLock().
RemainingRLock(p) ==
    /\ p \in DOMAIN calls
    /\ calls[p].op = "getRemaining" /\ calls[p].pc = "rlock"
    /\ CanRLock(locks)
    /\ locks' = RLock(locks, p)
    /\ calls' = [calls EXCEPT ![p].pc = "lookup"]
    /\ UNCHANGED <<LockIdle, limiters, now, ret>>

\* getRemaining(), lines 353-356: the lookup; an unknown ip returns the limit,
\* the deferred RUnlock() releasing the manager.
RemainingLookup(p) ==
    /\ p \in DOMAIN calls
    /\ calls[p].op = "getRemaining" /\ calls[p].pc = "lookup"
    /\ LET ip == calls[p].ip
       IN  IF ip \notin DOMAIN limiters
           THEN /\ locks' = RUnlock(locks, p)
                /\ calls' = WithoutCall(p)
                /\ ret' = Result("Remaining", ip, TRUE,
                                 GetRemaining(limiters, ip, limit), "none")
           ELSE /\ calls' = [calls EXCEPT ![p].pc = "lockBucket"]
                /\ UNCHANGED <<locks, ret>>
    /\ UNCHANGED <<LockIdle, limiters, now>>

\* getRemaining(), line 358: limiter.mutex.Lock().
RemainingLockBucket(p) ==
    /\ p \in DOMAIN calls
    /\ calls[p].op = "getRemaining" /\ calls[p].pc = "lockBucket"
    /\ CanLockBucket(locks, calls[p].ip)
    /\ locks' = LockBucket(locks, calls[p].ip, p)
    /\ calls' = [calls EXCEPT ![p].pc = "read"]
    /\ UNCHANGED <<LockIdle, limiters, now, ret>>

\* getRemaining(), line 361: the token count is returned; the deferred calls
\* unlock the bucket and then the manager.
RemainingRead(p) ==
    /\ p \in DOMAIN calls
    /\ calls[p].op = "getRemaining" /\ calls[p].pc = "read"
    /\ LET ip == calls[p].ip
       IN  /\ locks' = RUnlock(UnlockBucket(locks, ip), p)
           /\ calls' = WithoutCall(p)
           /\ ret' = Result("Remaining", ip, TRUE,
                            GetRemaining(limiters, ip, limit), "none")
    /\ UNCHANGED <<LockIdle, limiters, now>>

\* cleanup(), line 368: the ticker fires and a pass begins.
SweepTick ==
    /\ Sweeper \notin DOMAIN calls
    /\ calls' = WithCall(Sweeper, [op |-> "cleanup", pc |-> "lock", at |-> 0,
                                   todo |-> {}])
    /\ UNCHANGED <<LockIdle, limiters, now, ret, locks>>

\* cleanup(), line 369: rlm.mutex.Lock() is granted the writers' mutex.
SweepLock ==
    /\ Sweeper \in DOMAIN calls
    /\ calls[Sweeper].pc = "lock"
    /\ CanLock(locks)
    /\ locks' = Lock(locks, Sweeper)
    /\ calls' = [calls EXCEPT ![Sweeper].pc = "drain"]
    /\ UNCHANGED <<LockIdle, limiters, now, ret>>

\* cleanup(), lines 369-372: Lock() returns once the readers have left, the
\* time is read once and the range over the map begins.
SweepScan ==
    /\ Sweeper \in DOMAIN calls
    /\ calls[Sweeper].pc = "drain"
    /\ Drained(locks)
    /\ calls' = [calls EXCEPT ![Sweeper] = [op |-> "cleanup", pc |-> "scan",
                                            at |-> now, todo |-> DOMAIN limiters]]
    /\ UNCHANGED <<LockIdle, limiters, now, ret, locks>>

\* cleanup(), lines 373-377: one bucket of the range: its lock is taken, the
\* bucket is deleted when idle, its lock is released.
SweepVisit(k) ==
    /\ Sweeper \in DOMAIN calls
    /\ calls[Sweeper].pc = "scan"
    /\ k \in calls[Sweeper].todo
    /\ CanLockBucket(locks, k)
    /\ limiters' = IF Idle(limiters[k], window, calls[Sweeper].at)
                   THEN [j \in DOMAIN limiters \ {k} |-> limiters[j]]
                   ELSE limiters
    /\ calls' = [calls EXCEPT ![Sweeper].todo = @ \ {k}]
    /\ UNCHANGED <<LockIdle, now, ret, locks>>

\* Mutant of SweepUnlock: the pass ends and goes back to the ticker with the
\* manager still locked.
SweepKeepsLock ==
    /\ Sweeper \in DOMAIN calls
    /\ calls[Sweeper].pc = "scan"
    /\ calls[Sweeper].todo = {}
    /\ calls' = WithoutCall(Sweeper)
    /\ ret' = Result("Sweep", "", TRUE, 0, "none")
    /\ UNCHANGED <<LockIdle, limiters, now, locks>>

\* cleanup(), line 380: rlm.mutex.Unlock(); the goroutine waits for the next
\* tick.
SweepUnlock ==
    /\ Sweeper \in DOMAIN calls
    /\ calls[Sweeper].pc = "scan"
    /\ calls[Sweeper].todo = {}
    /\ locks' = Unlock(locks)
    /\ calls' = WithoutCall(Sweeper)
    /\ ret' = Result("Sweep", "", TRUE, 0, "none")
    /\ UNCHANGED <<LockIdle, limiters, now>>

\* The clock advances by one tick, whatever the goroutines are doing.
LockTick ==
    /\ now < MaxLockTime
    /\ now' = now + 1
    /\ UNCHANGED <<LockIdle, limiters, ret, calls, locks>>

\* The package's manager with one request per tick configured, no bucket
\* and no lock held.
LockInit ==
    /\ limit = parseInt(Number(1), DefaultLimit)
    /\ window = parseDuration(Number(1), DefaultWindow)
    /\ limiters = << >>
    /\ now = 0
    /\ cache = {}
    /\ githubTTL = 0
    /\ contentTTL = 0
    /\ ret = NoRet
    /\ granted = [k \in IPs |-> << >>]
    /\ evicted = {}
    /\ lastSet = << >>
    /\ EnvInit

\* The steps of a goroutine that is inside allow() or getRemaining().
CallStep(p) ==
    \/ AllowLock(p)
    \/ AllowLookup(p)
    \/ AllowLockBucket(p)
    \/ AllowUpdate(p)
    \/ RemainingRLock(p)
    \/ RemainingLookup(p)
    \/ RemainingLockBucket(p)
    \/ RemainingRead(p)

\* The steps of a pass of cleanup() once the ticker has fired.
SweepStep ==
    \/ SweepLock
    \/ SweepScan
    \/ \E k \in IPs : SweepVisit(k)
    \/ SweepUnlock

LockNext ==
    \/ \E p \in Procs, ip \in IPs : AllowCall(p, ip)
    \/ \E p \in Procs, ip \in IPs : RemainingCall(p, ip)
    \/ \E p \in Procs : CallStep(p)
    \/ SweepTick
    \/ SweepStep
    \/ LockTick

LockSpec == LockInit /\ [][LockNext]_vars

\* The goroutine that holds the manager's lock exclusively, if any: the
\* writer whose Lock() has returned.
Exclusive(p) ==
    /\ locks.writer = p
    /\ p \in DOMAIN calls
    /\ calls[p].pc # "drain"

\* C23: allow() on an existing bucket needs only that bucket's lock. The
\* exclusive lock on the map is held only by a pass of cleanup() or by an
\* allow() that inserts a new key, so a goroutine inside the token update of
\* an existing bucket does not hold it, and two such goroutines on different
\* keys can be inside their token updates together.
C23_BucketLockOnly ==
    \A p \in DOMAIN calls :
        (calls[p].op = "allow" /\ calls[p].pc = "update") => ~Exclusive(p)


\* The scheduling of the goroutines. The Go scheduler runs every runnable
\* goroutine, and sync.Mutex and sync.RWMutex hand a lock to the waiter at the
\* head of the queue once it has waited long enough (starvation mode), so a
\* goroutine whose next step is possible again and again does take it.
LockFairness ==
    /\ \A p \in Procs : SF_vars(CallStep(p))
    /\ SF_vars(SweepStep)

LockFairSpec == LockInit /\ [][LockNext]_vars /\ LockFairness

\* The goroutines that hold a lock of the manager.
Holders ==
    ({locks.writer} \cup locks.readers \cup {locks.bucket[k] : k \in IPs}) \ {"none"}

\* A bucket's lock is held only by a goroutine that holds the manager's lock,
\* and only a goroutine inside a call or inside a pass of cleanup() holds
\* anything: every return releases both, and cleanup() waits for its ticker
\* without a lock.
LockDiscipline ==
    /\ \A k \in IPs : locks.bucket[k] # "none" =>
          \/ locks.bucket[k] \in locks.readers
          \/ Exclusive(locks.bucket[k])
    /\ Holders \subseteq DOMAIN calls

\* C28: concurrent allow(), getRemaining() and cleanup() on one manager do
\* not deadlock. Every path takes the manager's lock before a bucket's lock
\* and releases both on return, cleanup() holds no lock while it waits for
\* its next tick, and under fair scheduling every call of allow() or
\* getRemaining() that has started returns, also when it started while a pass
\* of cleanup() was running.
C28_NoDeadlock ==
    /\ []LockDiscipline
    /\ \A p \in Procs : (p \in DOMAIN calls) ~> (p \notin DOMAIN calls)

\* An allow() and a getRemaining() are both waiting for the manager's lock
\* while a pass of cleanup() is scanning a map that holds a bucket.
C28_Witness ==
    /\ Sweeper \in DOMAIN calls
    /\ calls[Sweeper].pc = "scan"
    /\ Exclusive(Sweeper)
    /\ calls[Sweeper].todo # {}
    /\ \E p, q \in Procs :
          /\ p \in DOMAIN calls /\ calls[p].op = "allow" /\ calls[p].pc = "lock"
          /\ q \in DOMAIN calls /\ calls[q].op = "getRemaining"
          /\ calls[q].pc = "rlock"


\* -------------------------------------------------------------- the routes
\* SetupRoutes in the order of its statements, as far as the limiters are
\* concerned: the middlewares of the engine, the root routes, then the groups
\* with their own middlewares and routes.
Use(group, name) == [kind |-> "use", group |-> group, name |-> name]
Route(group, path) == [kind |-> "route", group |-> group, name |-> path]

SetupRoutes ==
    << Use("root", "Recovery"),
       Use("root", "RequestID"),
       Use("root", "Logger"),
       Use("root", "SecurityHeaders"),
       Use("root", "CORSMiddleware"),
       Use("root", "RateLimit"),
       Route("root", "/health"),
       Route("root", "/readiness"),
       Route("root", "/liveness"),
       Route("v1", "/api/v1/info"),
       Use("github", "GitHubRateLimit"),
       Route("github", "/api/v1/github/rate-limit") >>

Paths == {SetupRoutes[i].name : i \in {j \in DOMAIN SetupRoutes :
                                           SetupRoutes[j].kind = "route"}}

\* r.Group: the groups a group inherits its middlewares from, itself included.
Ancestors(group) ==
    IF group = "github" THEN {"root", "v1", "github"}
    ELSE IF group = "v1" THEN {"root", "v1"}
    ELSE {"root"}

\* gin gives a route the middlewares that were in use, on its group and on
\* the groups above it, at the moment the route was registered.
Chain(setup, path) ==
    LET at == CHOOSE i \in DOMAIN setup :
                  setup[i].kind = "route" /\ setup[i].name = path
    IN  {setup[i].name : i \in {j \in 1..(at - 1) :
                                   /\ setup[j].kind = "use"
                                   /\ setup[j].group \in Ancestors(setup[at].group)}}

\* A request of ip for path enters its chain. With RateLimit in the chain the
\* package's manager is asked first: allow() reads the clock, updates the
\* bucket and releases its locks before it returns.
RequestAllow(p, path, ip) ==
    /\ p \notin DOMAIN calls
    /\ LET chain == Chain(SetupRoutes, path)
           g == IF "RateLimit" \in chain
                THEN AllowStep(limiters, ip, limit, window, now)
                ELSE [limiters |-> limiters, ok |-> TRUE, branch |-> "none"]
       IN  /\ limiters' = g.limiters
           /\ calls' = WithCall(p,
                 [op |-> "Route", path |-> path, ip |-> ip, allowed |-> g.ok,
                  pc |-> IF "RateLimit" \in chain THEN "answer" ELSE "next",
                  response |-> NoResponse])
           /\ ret' = Result("RequestAllow", ip, g.ok, 0, path)
    /\ UNCHANGED <<limit, window, now, cache, githubTTL, contentTTL, granted, evicted,
                   lastSet, storeUp, batch, unswept, content, custom, locks>>

\* What RateLimit does once allow() has returned. Denied: it reads the clock
\* for the reset time, writes the headers and the 429 and aborts. Allowed: it
\* calls getRemaining(), writes the headers and calls c.Next().
RequestAnswer(p) ==
    /\ p \in DOMAIN calls
    /\ calls[p].op = "Route" /\ calls[p].pc = "answer"
    /\ IF calls[p].allowed
       THEN /\ calls' = [calls EXCEPT ![p].pc = "next",
                           ![p].response = AllowedResponse(limit, window,
                                              GetRemaining(limiters, calls[p].ip, limit))]
            /\ ret' = Result("RequestAnswer", calls[p].ip, TRUE, 0, calls[p].path)
       ELSE /\ calls' = WithoutCall(p)
            /\ ret' = Result("Request", calls[p].ip, FALSE,
                             DeniedResponse(limit, window, now).status, calls[p].path)
    /\ UNCHANGED <<limit, window, limiters, now, cache, githubTTL, contentTTL, granted,
                   evicted, lastSet, storeUp, batch, unswept, content, custom, locks>>

\* c.Next(): the next handler of the chain. With GitHubRateLimit in the chain
\* that is the handler of the custom manager, whose allow() reads the clock
\* itself; otherwise the controller runs and the request is answered.
RequestNext(p) ==
    /\ p \in DOMAIN calls
    /\ calls[p].op = "Route" /\ calls[p].pc = "next"
    /\ IF "GitHubRateLimit" \in Chain(SetupRoutes, calls[p].path)
       THEN LET c == AllowStep(custom.limiters, calls[p].ip, custom.limit,
                               custom.window, now)
            IN  /\ custom' = [custom EXCEPT !.limiters = c.limiters]
                /\ calls' = [calls EXCEPT ![p].pc = "custom answer",
                                          ![p].allowed = c.ok]
                /\ ret' = Result("RequestNext", calls[p].ip, c.ok, 0, calls[p].path)
       ELSE /\ calls' = WithoutCall(p)
            /\ ret' = Result("Request", calls[p].ip, TRUE, 0, calls[p].path)
            /\ UNCHANGED custom
    /\ UNCHANGED <<limit, window, limiters, now, cache, githubTTL, contentTTL, granted,
                   evicted, lastSet, storeUp, batch, unswept, content, locks>>

\* What the handler of CustomRateLimit does once its allow() has returned: the
\* denial with the clock read again, or getRemaining(), the headers and
\* c.Next(), which runs the controller.
RequestCustomAnswer(p) ==
    /\ p \in DOMAIN calls
    /\ calls[p].op = "Route" /\ calls[p].pc = "custom answer"
    /\ calls' = WithoutCall(p)
    /\ ret' = IF calls[p].allowed
              THEN Result("Request", calls[p].ip, TRUE,
                          AllowedResponse(custom.limit, custom.window,
                              GetRemaining(custom.limiters, calls[p].ip,
                                           custom.limit)).status,
                          calls[p].path)
              ELSE Result("Request", calls[p].ip, FALSE,
                          DeniedResponse(custom.limit, custom.window, now).status,
                          calls[p].path)
    /\ UNCHANGED <<limit, window, limiters, now, cache, githubTTL, contentTTL, granted,
                   evicted, lastSet, storeUp, batch, unswept, content, custom, locks>>

\* The engine after SetupRoutes: the package's manager as the environment
\* configures it and the manager of GitHubRateLimit().
RouteInit ==
    /\ \E le \in {Number(n) : n \in 1..MaxLimit} : limit = parseInt(le, DefaultLimit)
    /\ window = parseDuration(Number(MaxWindow), DefaultWindow)
    /\ limiters = << >>
    /\ now = 0
    /\ cache = {}
    /\ githubTTL = 0
    /\ contentTTL = 0
    /\ ret = NoRet
    /\ granted = [k \in IPs |-> << >>]
    /\ evicted = {}
    /\ lastSet = << >>
    /\ storeUp = TRUE
    /\ calls = << >>
    /\ batch = {}
    /\ unswept = {}
    /\ content = {}
    /\ custom = GitHubRateLimit
    /\ locks = NoLocks

\* The goroutine that serves the requests.
Server == "p1"

\* Requests of one client, one after another, with the cleanup passes and the
\* clock running between their steps.
RouteNext ==
    \/ \E path \in Paths : RequestAllow(Server, path, ScenarioIP)
    \/ RequestAnswer(Server)
    \/ RequestNext(Server)
    \/ RequestCustomAnswer(Server)
    \/ Sweep
    \/ CustomSweep
    \/ Tick

RouteSpec == RouteInit /\ [][RouteNext]_vars

\* The root health endpoints.
HealthPaths == {"/health", "/readiness", "/liveness"}

\* The steps of a request through its chain.
RequestSteps == {"RequestAllow", "RequestAnswer", "RequestNext", "Request"}

\* C27 as stated: a request for /health, /readiness or /liveness is not rate
\* limited: no step of it takes a token from a bucket of any manager or creates
\* a bucket, and it is never answered 429, whatever the bucket of the caller
\* holds.
C27_HealthNotRateLimited ==
    [][ (ret'.op \in RequestSteps /\ ret'.data \in HealthPaths) =>
           /\ limiters' = limiters
           /\ custom' = custom
           /\ ret'.val # 429 ]_vars


\* ------------------------------------------------- the refill's arithmetic
\* The refill branch of allow() as a function of what it is given, with the
\* Durations counted to the nanosecond: `window` holds a Duration, and a call
\* is made on a bucket holding `tokens`, `elapsed` after its lastSeen.

\* The configurations: RATE_LIMIT_REQUESTS and RATE_LIMIT_WINDOW ("400ms",
\* "1s", "1h"), and one request per "4800h".
RefillLimits == {1, 4, 100, 10007}
RefillWindows ==
    {[sec |-> 0, nsec |-> 400000000], [sec |-> 1, nsec |-> 0], [sec |-> 3600, nsec |-> 0]}
LongWindow == [sec |-> 17280000, nsec |-> 0]
RefillConfigs ==
    {[limit |-> l, window |-> w] : l \in RefillLimits, w \in RefillWindows}
      \cup {[limit |-> 1, window |-> LongWindow]}

\* The times since lastSeen: none, 100 ms, 290 ms, 300 ms, half an hour, 36
\* minutes, 36 min 6.763265714 s, and a nanosecond less than 4800 h.
RefillGaps ==
    {[sec |-> 0, nsec |-> 0], [sec |-> 0, nsec |-> 100000000],
     [sec |-> 0, nsec |-> 290000000], [sec |-> 0, nsec |-> 300000000],
     [sec |-> 1800, nsec |-> 0], [sec |-> 2160, nsec |-> 0],
     [sec |-> 2166, nsec |-> 763265714], [sec |-> 17279999, nsec |-> 999999999]}

\* The token counts of the bucket before the call.
RefillHeld == {0, 1}

\* a < b and a + b on Durations.
DurLess(a, b) == a.sec < b.sec \/ (a.sec = b.sec /\ a.nsec < b.nsec)

DurAdd(a, b) ==
    [sec |-> a.sec + b.sec + ((a.nsec + b.nsec) \div 1000000000),
     nsec |-> (a.nsec + b.nsec) % 1000000000]

\* n * d for a Duration d and an int n >= 0, exact.
RECURSIVE DurTimes(_, _)
DurTimes(d, n) ==
    IF n = 0 THEN [sec |-> 0, nsec |-> 0]
    ELSE IF n % 2 = 1 THEN DurAdd(DurTimes(DurAdd(d, d), n \div 2), d)
    ELSE DurTimes(DurAdd(d, d), n \div 2)

\* allow() on an existing bucket that holds `tokens`, called `elapsed` after
\* the bucket's lastSeen with elapsed < rlm.window: the refill branch. The
\* answer and the tokens left are returned with the call and its tokensToAdd.
RefillCall(tokens, elapsed) ==
    /\ tokens < limit
    /\ ~WindowPassedBy(elapsed, window)
    /\ ret' = Result("Refill", "", RefillTokens(tokens, elapsed, limit, window).ok,
                     RefillTokens(tokens, elapsed, limit, window).tokens,
                     [tokens |-> tokens, elapsed |-> elapsed,
                      added |-> TokensToAdd(elapsed, limit, window)])
    /\ UNCHANGED <<limit, window, limiters, now, cache, githubTTL, contentTTL, Env,
                   granted, evicted, lastSet>>

RefillInit ==
    /\ \E c \in RefillConfigs : limit = c.limit /\ window = c.window
    /\ limiters = << >>
    /\ now = 0
    /\ cache = {}
    /\ githubTTL = 0
    /\ contentTTL = 0
    /\ ret = NoRet
    /\ granted = [k \in IPs |-> << >>]
    /\ evicted = {}
    /\ lastSet = << >>
    /\ EnvInit

RefillNext == \E tokens \in RefillHeld : \E elapsed \in RefillGaps : RefillCall(tokens, elapsed)

RefillSpec == RefillInit /\ [][RefillNext]_vars

\* C24 as stated: the refill is truncated on every call and the remainder is
\* dropped: an allow() made less than window/capacity after the previous
\* allow() on the key (elapsed * capacity < window) adds no token, so on a
\* bucket at 0 tokens it is denied and the bucket stays at 0.
C24_ShortGapsAddNothing ==
    (ret.op = "Refill" /\ DurLess(DurTimes(ret.data.elapsed, limit), window)) =>
        /\ ret.data.added = 0
        /\ ret.data.tokens = 0 => (~ret.ok /\ ret.val = 0)

\* C29 as stated: the tokens a refill adds never exceed what the continuous
\* rate capacity/window produces in the elapsed time (added * window <=
\* elapsed * capacity), so a key that has drawn its C tokens at one instant is
\* granted at most floor(T * C / W) more calls T later: at most
\* C + floor(T * C / W) inside the interval of length T.
C29_BurstBound ==
    ret.op = "Refill" =>
        ~DurLess(DurTimes(ret.data.elapsed, limit), DurTimes(window, ret.data.added))


\* ----------------------------------------------------- the sweep's schedule
\* cleanup() creates time.NewTicker(time.Hour): the period of the passes,
\* whatever window the manager is configured with.
CleanupPeriod == 3600 * Second

\* The passes of cleanup() the runs follow.
MaxPasses == 2

\* The instant of the next tick of the ticker: the manager is built, and the
\* ticker started, at time 0.
NextPass(t) == ((t \div CleanupPeriod) + 1) * CleanupPeriod

\* Time passes without reaching the next tick of the ticker.
Wait(d) ==
    /\ now + d < NextPass(now)
    /\ (now % CleanupPeriod) + d <= MaxTime
    /\ Advance(d)

\* Time passes up to the next tick of the ticker, and cleanup() makes its pass.
TickerFire ==
    /\ now < MaxPasses * CleanupPeriod
    /\ now' = NextPass(now)
    /\ limiters' = CleanupStep(limiters, window, NextPass(now))
    /\ evicted' = evicted \cup (DOMAIN limiters \ DOMAIN limiters')
    /\ granted' = [k \in DOMAIN granted |-> Recent(granted[k], NextPass(now))]
    /\ ret' = Result("Sweep", "", TRUE, 0, "none")
    /\ UNCHANGED <<limit, window, cache, githubTTL, contentTTL, Env, lastSet>>

\* The package's manager with a window of a few ticks configured.
TickerInit ==
    /\ limit = parseInt(Number(1), DefaultLimit)
    /\ \E we \in {Number(n) : n \in 1..MaxWindow} :
          window = parseDuration(we, DefaultWindow)
    /\ limiters = << >>
    /\ now = 0
    /\ cache = {}
    /\ githubTTL = 0
    /\ contentTTL = 0
    /\ ret = NoRet
    /\ granted = [k \in IPs |-> << >>]
    /\ evicted = {}
    /\ lastSet = << >>
    /\ EnvInit

TickerNext ==
    \/ \E ip \in IPs : Allow(ip)
    \/ \E ip \in IPs : Remaining(ip)
    \/ \E d \in 1..MaxTime : Wait(d)
    \/ TickerFire

TickerSpec == TickerInit /\ [][TickerNext]_vars

\* C25: cleanup() runs with a period equal to the configured window, so a
\* bucket that has been idle for more than 2 * window is gone at the latest
\* one window after it crossed that threshold: no bucket is ever found more
\* than 3 * window after its last use.
C25_SweptWithinOneWindow ==
    \A k \in DOMAIN limiters : now - limiters[k].lastSeen <= 3 * window


\* ------------------------------------------------------------ GitHub sync
Repositories == <<"r", "e", "p", "o", "s", "i", "t", "o", "r", "i", "e", "s">>
Contributions == <<"c", "o", "n", "t", "r", "i", "b", "u", "t", "i", "o", "n", "s">>

\* The getters SyncData calls, in its order.
SyncOrder == <<Profile, Repositories, Contributions, Stats>>

\* What the getters made of the GitHub API's answers to earlier requests, and
\* what they make of its answers now: a struct, and for the repositories the
\* list of the user's public repositories, which is []models.GitHubRepository{}
\* when the user has none.
Cached(dataType) == IF dataType = Repositories THEN {"l1", EmptyList} ELSE {"d1"}
Fresh(dataType) == IF dataType = Repositories THEN {"l2", EmptyList} ELSE {"d2"}

\* The contributions and the statistics computed from a list of repositories.
Computed == "d2"

\* The goroutine that serves the sync requests.
Syncer == "p1"

\* A GetProfile, GetRepositories, GetContributions or GetStats of another
\* request, which asked the GitHub API earlier, caches its result with
\* SetGitHubData: before a SyncData, or while one is running. An entry that
\* it overwrites is no longer one of those the running SyncData found on
\* entry.
SyncSeed(dataType) ==
    \E v \in Cached(dataType) :
        /\ cache' \in (IF storeUp
                       THEN SetStep(cache, GitHubKey(Alice, dataType), v, githubTTL, now)
                       ELSE {cache})
        /\ ret' = Result("Set", GitHubKey(Alice, dataType), storeUp, 0, "none")
        /\ calls' = [p \in DOMAIN calls |->
                        [calls[p] EXCEPT !.before =
                            IF storeUp
                            THEN {d \in @ : d.key # GitHubKey(Alice, dataType)}
                            ELSE @]]
        /\ UNCHANGED <<LimiterIdle, now, githubTTL, contentTTL, lastSet, storeUp, batch,
                       unswept, content, custom, locks>>

\* SyncData, lines 533-535: InvalidateGitHubCache is called and its error is
\* dropped; GetProfile is entered. `before` keeps the entries of the user the
\* cache held on entry that no Set of the call has overwritten, `cached` the
\* data types that were served from one of them, `result` what the getter at
\* work has fetched or computed. `inner` tells that the getter at work is
\* inside the GetRepositories it calls.
SyncDataCall(p, username) ==
    /\ p \notin DOMAIN calls
    /\ cache' = IF storeUp THEN DeletePatternStep(cache, GitHubPattern(username))
                ELSE cache
    /\ calls' = WithCall(p,
          [op |-> "SyncData", pc |-> "get", username |-> username, step |-> 1,
           inner |-> FALSE, result |-> "none",
           before |-> {d \in cache : \E i \in DOMAIN SyncOrder :
                                        d.key = GitHubKey(username, SyncOrder[i])},
           cached |-> {}])
    /\ UNCHANGED <<LimiterIdle, now, githubTTL, contentTTL, ret, lastSet, storeUp,
                   batch, unswept, content, custom, locks>>

\* The getters that ask the GitHub API themselves; GetContributions and
\* GetStats compute their result from what GetRepositories returns.
Fetchers == {Profile, Repositories}

\* The data type whose cache entry the getter at work reads and writes.
SyncType(c) == IF c.inner THEN Repositories ELSE SyncOrder[c.step]

\* The call record once the getter at work has its result: inside
\* GetRepositories the calling getter goes on to compute and cache its own
\* result, otherwise SyncData enters the next getter.
SyncProceed(c) ==
    IF c.inner THEN [c EXCEPT !.inner = FALSE, !.pc = "set", !.result = Computed]
    ELSE [c EXCEPT !.step = c.step + 1, !.pc = "get"]

\* The step that ends a getter: the last getter ends SyncData, which returns
\* nil; val counts the data types served from an entry older than the call.
SyncReturn(p, c) ==
    IF ~c.inner /\ c.step = Len(SyncOrder)
    THEN /\ calls' = WithoutCall(p)
         /\ ret' = Result("SyncData", c.username, TRUE, Cardinality(c.cached),
                          IF c.cached = {} THEN "upstream" ELSE "cache")
    ELSE /\ calls' = [calls EXCEPT ![p] = SyncProceed(c)]
         /\ UNCHANGED ret

\* "Try cache first": the getter at work calls GetGitHubData. With err == nil
\* it returns what the cache gave. Otherwise GetProfile and GetRepositories go
\* on to ask the GitHub API, and GetContributions and GetStats enter
\* GetRepositories, which tries the cache for the repositories first.
SyncGet(p) ==
    /\ p \in DOMAIN calls
    /\ calls[p].op = "SyncData" /\ calls[p].pc = "get"
    /\ LET c == calls[p]
           key == GitHubKey(c.username, SyncType(c))
       IN  \E r \in GetStep(cache, key, now, ~storeUp) :
              IF r.kind = "hit"
              THEN LET old == \E d \in c.before \cap cache :
                                 LiveFilter(d, key, now) /\ Decoded(d.value) = r
                   IN  SyncReturn(p, [c EXCEPT !.cached =
                                         IF old THEN c.cached \cup {SyncType(c)}
                                         ELSE c.cached])
              ELSE /\ calls' = [calls EXCEPT ![p] =
                                   IF SyncType(c) \in Fetchers
                                   THEN [c EXCEPT !.pc = "fetch"]
                                   ELSE [c EXCEPT !.inner = TRUE]]
                   /\ UNCHANGED ret
    /\ UNCHANGED <<LimiterIdle, now, cache, githubTTL, contentTTL, lastSet, storeUp,
                   batch, unswept, content, custom, locks>>

\* The requests to the GitHub API of GetProfile or GetRepositories, gs.client
\* with its timeout: an error, or a status other than 200, is returned by the
\* getter, by the getter that called it, and by SyncData.
SyncFetch(p, upstreamOk) ==
    /\ p \in DOMAIN calls
    /\ calls[p].op = "SyncData" /\ calls[p].pc = "fetch"
    /\ IF upstreamOk
       THEN /\ \E v \in Fresh(SyncType(calls[p])) :
                  calls' = [calls EXCEPT ![p].pc = "set", ![p].result = v]
            /\ UNCHANGED ret
       ELSE /\ calls' = WithoutCall(p)
            /\ ret' = Result("SyncData", calls[p].username, FALSE, 0, "upstream error")
    /\ UNCHANGED <<LimiterIdle, now, cache, githubTTL, contentTTL, lastSet, storeUp,
                   batch, unswept, content, custom, locks>>

\* "Cache the result": SetGitHubData with what was fetched or computed, its
\* error dropped, and the getter returns.
SyncSet(p) ==
    /\ p \in DOMAIN calls
    /\ calls[p].op = "SyncData" /\ calls[p].pc = "set"
    /\ LET c == calls[p]
           key == GitHubKey(c.username, SyncType(c))
       IN  /\ cache' \in (IF storeUp
                          THEN SetStep(cache, key, c.result, githubTTL, now)
                          ELSE {cache})
           /\ SyncReturn(p, [c EXCEPT !.before =
                                 IF storeUp THEN {d \in c.before : d.key # key}
                                 ELSE c.before])
    /\ UNCHANGED <<LimiterIdle, now, githubTTL, contentTTL, lastSet, storeUp, batch,
                   unswept, content, custom, locks>>

\* Last clock tick of the sync specification.
MaxSyncTime == 1

SyncTick ==
    /\ now < MaxSyncTime
    /\ Advance(1)

\* The cache after NewCacheService(), empty, with the GitHub TTL as configured.
SyncInit ==
    /\ limit = parseInt(Unset, DefaultLimit)
    /\ window = parseDuration(Unset, DefaultWindow)
    /\ limiters = << >>
    /\ granted = [k \in IPs |-> << >>]
    /\ evicted = {}
    /\ now = 0
    /\ cache = {}
    /\ \E e \in TTLEnv : githubTTL = parseDuration(e, DefaultGitHubTTL)
    /\ contentTTL = parseDuration(Unset, DefaultContentTTL)
    /\ ret = NoRet
    /\ lastSet = << >>
    /\ EnvInit

SyncNext ==
    \/ \E i \in DOMAIN SyncOrder : SyncSeed(SyncOrder[i])
    \/ SyncDataCall(Syncer, Alice)
    \/ SyncGet(Syncer)
    \/ \E upstreamOk \in BOOLEAN : SyncFetch(Syncer, upstreamOk)
    \/ SyncSet(Syncer)
    \/ StoreFails
    \/ StoreRecovers
    \/ SyncTick

SyncSpec == SyncInit /\ [][SyncNext]_vars

\* C26: SyncData forces a refresh. Whenever it returns success, each of the
\* four results was computed from an answer of the GitHub API fetched during
\* the call, none came from the cache, and none of the user's entries that
\* the cache held when the call started is still in it, also when the store
\* failed the invalidation.
C26_SyncForcesRefresh ==
    [][ \A p \in DOMAIN calls :
          (calls[p].op = "SyncData" /\ p \notin DOMAIN calls' /\ ret'.ok) =>
              /\ ret'.data = "upstream"
              /\ cache' \cap calls[p].before = {} ]_vars


\* ------------------------------------------- content reads beside an update
\* The goroutine that serves the content reads.
Reader == "p2"

\* The version and the data of the stored document of a content type.
StoredVersion(contentType) ==
    IF ContentOf(content, contentType) = {} THEN 0
    ELSE (CHOOSE c \in ContentOf(content, contentType) : TRUE).version
StoredData(contentType) ==
    IF ContentOf(content, contentType) = {} THEN "default"
    ELSE (CHOOSE c \in ContentOf(content, contentType) : TRUE).data

\* GetMeta, lines 76-79: the cache is asked first, and its entry is returned
\* when GetContentData gives no error. Otherwise the call goes on to the
\* content collection. `quiet` and `version` keep whether an update was
\* running, and the stored version, when the call began.
GetMetaCall(p) ==
    /\ p \notin DOMAIN calls
    /\ \E r \in GetStep(cache, ContentKey(Meta), now, ~storeUp) :
           IF r.kind = "hit"
           THEN /\ ret' = Result("GetMeta", Meta, TRUE, 0, r.value)
                /\ UNCHANGED calls
           ELSE /\ calls' = WithCall(p, [op |-> "GetMeta", pc |-> "find",
                                         data |-> "none",
                                         quiet |-> Updater \notin DOMAIN calls,
                                         version |-> StoredVersion(Meta)])
                /\ UNCHANGED ret
    /\ UNCHANGED <<LimiterIdle, now, cache, githubTTL, contentTTL, lastSet, storeUp,
                   batch, unswept, content, custom, locks>>

\* GetMeta, lines 81-101: FindOne on the content collection. The store's
\* error is returned, a missing document gives the default Meta, and the data
\* of a found document is converted to models.Meta, the error of the conversion
\* being returned with nothing cached.
GetMetaFind(p) ==
    /\ p \in DOMAIN calls
    /\ calls[p].op = "GetMeta" /\ calls[p].pc = "find"
    /\ IF ~storeUp
       THEN /\ calls' = WithoutCall(p)
            /\ ret' = Result("GetMeta", Meta, FALSE, 0, "error")
       ELSE IF ContentOf(content, Meta) = {}
       THEN /\ calls' = WithoutCall(p)
            /\ ret' = Result("GetMeta", Meta, TRUE, 0, "default")
       ELSE LET m == ConvertToStruct(StoredData(Meta))
            IN  IF ~m.ok
                THEN /\ calls' = WithoutCall(p)
                     /\ ret' = Result("GetMeta", Meta, FALSE, 0, "convert error")
                ELSE /\ calls' = [calls EXCEPT ![p].pc = "populate",
                                               ![p].data = m.value]
                     /\ UNCHANGED ret
    /\ UNCHANGED <<LimiterIdle, now, cache, githubTTL, contentTTL, lastSet, storeUp,
                   batch, unswept, content, custom, locks>>

\* GetMeta, lines 103-106: SetContentData caches what was read, its error is
\* dropped, and the call returns what was read.
GetMetaPopulate(p) ==
    /\ p \in DOMAIN calls
    /\ calls[p].op = "GetMeta" /\ calls[p].pc = "populate"
    /\ cache' \in (IF storeUp
                   THEN SetStep(cache, ContentKey(Meta), calls[p].data, contentTTL, now)
                   ELSE {cache})
    /\ calls' = WithoutCall(p)
    /\ ret' = Result("GetMeta", Meta, TRUE, 0, calls[p].data)
    /\ UNCHANGED <<LimiterIdle, now, githubTTL, contentTTL, lastSet, storeUp, batch,
                   unswept, content, custom, locks>>

\* Updates of the meta document beside reads of it, the store answering
\* every call.
CoherenceNext ==
    \/ \E d \in ContentData : UpdateContentCall(Updater, Meta, d)
    \/ UpdateContentWrite(Updater)
    \/ UpdateContentInvalidate(Updater)
    \/ GetMetaCall(Reader)
    \/ GetMetaFind(Reader)
    \/ GetMetaPopulate(Reader)
    \/ CacheTick

CoherenceSpec == ContentInit /\ [][CoherenceNext]_vars

\* The Meta a read of the stored document should return: the stored data,
\* less the fields models.Meta does not have.
UpdatedMeta == IF StoredData(Meta) = "d1x" THEN "d1" ELSE StoredData(Meta)

\* C30 as stated: reads are coherent with updates. Once an UpdateContent of a
\* type has returned success and no update of the type is running or has run
\* since, every GetMeta that begins afterwards returns the data of that
\* update: the one answered from the cache at once, and the one that misses,
\* reads the collection and fills the cache.
C30_ReadsSeeLastUpdate ==
    [][ /\ ( /\ ret'.op = "GetMeta"
             /\ calls' = calls
             /\ Reader \notin DOMAIN calls
             /\ Updater \notin DOMAIN calls
             /\ StoredVersion(Meta) > 1 )
           => ret'.data = UpdatedMeta
        /\ ( /\ Reader \in DOMAIN calls
             /\ Reader \notin DOMAIN calls'
             /\ calls[Reader].quiet
             /\ Updater \notin DOMAIN calls
             /\ StoredVersion(Meta) = calls[Reader].version
             /\ StoredVersion(Meta) > 1 )
           => (ret'.ok /\ ret'.data = UpdatedMeta) ]_vars


\* ------------------------------------------------- one key, longer windows
\* The limits, the windows and the clock of the runs on one key in which the
\* float64 of tokensToAdd falls short of the exact quotient (300 ms into a
\* window of 400 ms, limit 4: 2 tokens, not 3).
MaxBurstLimit == 4
MaxBurstWindow == 5
MaxBurstTime == 10

BurstTick ==
    /\ now < MaxBurstTime
    /\ Advance(1)

\* The package's manager with a valid configuration.
BurstInit ==
    /\ \E le \in {Number(n) : n \in 1..MaxBurstLimit} : limit = parseInt(le, DefaultLimit)
    /\ \E we \in {Number(n) : n \in 1..MaxBurstWindow} :
          window = parseDuration(we, DefaultWindow)
    /\ limiters = << >>
    /\ now = 0
    /\ cache = {}
    /\ githubTTL = 0
    /\ contentTTL = 0
    /\ ret = NoRet
    /\ granted = [k \in IPs |-> << >>]
    /\ evicted = {}
    /\ lastSet = << >>
    /\ EnvInit

BurstNext ==
    \/ Allow(ScenarioIP)
    \/ Sweep
    \/ BurstTick

BurstSpec == BurstInit /\ [][BurstNext]_vars

====
